---- MODULE Spec2Model ----
(***************************************************************************)
(* MinerU Tianshu: the task-lifecycle polling loops of the three callers   *)
(* (TianshuClient.wait_for_task, MinerURunPodHandler.process_task /        *)
(* submit_task_to_api, RunPodClient.wait_for_completion) and the cancel    *)
(* endpoint of the API server over the task store.                         *)
(*                                                                         *)
(* Time is a global clock `now` in seconds.  A request is answered at the  *)
(* instant it is issued; only a sleep lets time pass.  The response the    *)
(* service gives during one instant is `cur`; it changes only when the     *)
(* clock advances, so loops polling at the same instants observe the same  *)
(* sequence of poll results.                                               *)
(***************************************************************************)
EXTENDS Integers, Sequences, FiniteSets, TLC

\* ------------------------------------------------------------------ bounds
\* Largest timeout argument tried for wait_for_task / wait_for_completion
\* (besides the handler's own 300 s).
MaxTimeout == 4
\* Largest poll_interval argument tried.
MaxInterval == 2
\* Runs with several loops side by side are followed up to this instant;
\* a loop running alone is followed to its timeout.
SideHorizon == 6

\* ------------------------------------------------------- program constants
\* runpod_handler.py: max_wait_time = 300, poll_interval = 2
max_wait_time == 300
poll_interval == 2

Loops == {"client", "handler", "batch"}

\* ------------------------------------------------------------- responses
\* A key that is not in a JSON body (dict.get gives its default).
Absent == "<absent>"
\* A JSON null where a string is expected.
NullContent == "<null>"
\* A status outside the five of the task store.
OtherStatus == "archived"
\* The markdown of a finished task.
Markup == "![a](img.png)"

NoExc == [type |-> "", fmt |-> "", arg |-> ""]
Exc(t, f, a) == [type |-> t, fmt |-> f, arg |-> a]
\* str(e): the message of an exception built from an f-string.
Str(e) == e.fmt \o e.arg

\* Exceptions the HTTP library raises when no response arrives.  A request
\* that ran into the session's total timeout raises asyncio.TimeoutError(),
\* which carries no message: its str() is the empty string.
TransportExceptions ==
    { Exc("ClientConnectorError", "Cannot connect to host", ""),
      Exc("TimeoutError", "", "") }

NoData == [present |-> FALSE, content |-> ""]
Data(c) == [present |-> TRUE, content |-> c]

\* One answer to a status request: code 0 is "no response" (exc is raised),
\* otherwise the HTTP status code and the fields of the JSON body.
Resp(code, exc, status, msg, data, out) ==
    [code |-> code, exc |-> exc, status |-> status, error_message |-> msg,
     data |-> data, output_success |-> out]

NoResp == Resp(-1, NoExc, Absent, Absent, NoData, FALSE)

Responses ==
    { Resp(0, e, Absent, Absent, NoData, FALSE) : e \in TransportExceptions }
    \cup { Resp(500, NoExc, Absent, Absent, NoData, FALSE) }
    \cup { Resp(200, NoExc, s, Absent, NoData, FALSE) :
              s \in {"pending", "processing", "cancelled", OtherStatus} }
    \cup { Resp(200, NoExc, "failed", m, NoData, FALSE) : m \in {"oom", Absent} }
    \cup { Resp(200, NoExc, "completed", Absent, d, o) :
              d \in {NoData, Data(Markup), Data(NullContent)}, o \in BOOLEAN }

TerminalStatuses == {"completed", "failed", "cancelled"}
IsTransportError(r) == r.code # 200
ObservedTerminal(r) == r.code = 200 /\ r.status \in TerminalStatuses

\* result.get('error_message', 'Unknown error')
ErrorText(r) == IF r.error_message = Absent THEN "Unknown error" ELSE r.error_message


\* ------------------------------------------------------------------ state
VARIABLES
    now,              \* the clock, in seconds
    cur,              \* what a status request is answered with at this instant
    since,            \* the instant from which the service answers with cur
    active,           \* the callers that run in this behaviour
    c_poll_interval,  \* the poll_interval argument of the two clients
    c_timeout,        \* the timeout argument of the two clients
    pc,               \* where each caller is
    wake,             \* when a sleeping caller wakes up
    polls,            \* status requests each caller has issued
    lastPollAt,       \* when each caller issued its latest status request
    gap,              \* time between a caller's latest two status requests
    lastResp,         \* the answer to each caller's latest status request
    sawTerminal,      \* a status request of the caller observed a terminal status
    regressed,        \* the caller observed pending right after processing
    sent,             \* the requests each caller has issued
    elapsed,          \* wait_for_task: elapsed
    c_out,            \* wait_for_task: what it returned or raised
    event,            \* process_task: the event's input.object_name
    submits,          \* process_task: submit requests issued
    submitResp,       \* process_task: the answer to the submit request
    waited_time,      \* submit_task_to_api: waited_time
    h_raised,         \* process_task: the exception its except clause caught
    envelope,         \* process_task: what it returned
    start_time,       \* wait_for_completion: start_time
    b_result,         \* wait_for_completion: what it returned
    b_counted         \* example_batch_workflow: how the task was counted

pollVars == <<now, cur, since, active, c_poll_interval, c_timeout, pc, wake, polls,
              lastPollAt, gap, lastResp, sawTerminal, regressed, sent, elapsed, c_out,
              event,
              submits, submitResp, waited_time, h_raised, envelope,
              start_time, b_result, b_counted>>

\* The task store and the cancel endpoint of the API server.
VARIABLES
    tasks,            \* the task records of the store, by task id
    files,            \* the task ids whose uploaded input file is on disk
    cancel,           \* the cancel request the API server is handling
    cancels,          \* cancel requests received so far
    seenCancelled     \* the task ids whose status has been "cancelled"

storeVars == <<tasks, files, cancel, cancels, seenCancelled>>

\* The storage backend, get_task_status and the image relocation.
VARIABLES
    env,              \* the environment variables of the server and the client
    task_row,         \* the task record and its result directory
    ipc,              \* where the server and the client are
    library,          \* what importing and constructing the provider client did
    storage_backend,  \* api_server.storage_backend
    connection,       \* what check_connection returned
    objects,          \* the objects held by the object storage, by location
    attempts,         \* the uploads process_markdown_images attempted
    requests,         \* get-task requests served so far
    response,         \* the answer to the latest get-task request
    extracted,        \* download_images_from_storage: image_urls
    downloads,        \* download_images_from_storage: each download and its outcome
    relocated,        \* download_images_from_storage: what it returned
    local_files,      \* the files in the client's images directory
    task_md,          \* the client's file <output_dir>/<task_id>/<markdown_file>
    runpod_image_count \* image_count of the orchestrator's converted answer

imgVars == <<env, task_row, ipc, library, storage_backend, connection, objects, attempts,
             requests, response, extracted, downloads, relocated, local_files,
             task_md, runpod_image_count>>

\* Concurrent process_task invocations of one handler, and the API server's
\* event loop that answers them.
VARIABLES
    handler_attrs,    \* handler.worker_id, handler.api_url
    inv,              \* each invocation: where it is, its event, what it saw, its result
    waited,           \* the waited_time variables
    task_of,          \* the status of each invocation's own task
    event_loop,       \* the API server's event loop: free, or inside a blocking call
    upload_req,       \* a get_task_status(upload_images=true) request at the server
    storage_hangs     \* the storage endpoint never answers

parVars == <<handler_attrs, inv, waited, task_of, event_loop, upload_req, storage_hangs>>

\* A storage URL spelled out: built from an object name, then taken apart.
VARIABLES
    url_trip          \* the backend, the object name, the URL and what was read from it

urlVars == <<url_trip>>

\* A submission by file upload: TianshuClient.submit_task and the service's
\* submit_task.
VARIABLES
    submission        \* the caller's arguments, the form sent, the task created, the answer

subVars == <<submission>>

vars == <<pollVars, storeVars, imgVars, parVars, urlVars, subVars>>

NoGap == 0 - 1

\* ------------------------------------------- TianshuClient.wait_for_task
NoOutcome == [returned |-> NoResp, raised |-> NoExc]
Returned(r) == [returned |-> r, raised |-> NoExc]
Raised(e) == [returned |-> NoResp, raised |-> e]

\* wait_for_task_poll without the branch on 'cancelled'.
wait_for_task_poll_no_cancelled(r) ==
    IF r.code = 0 THEN [next |-> "done", out |-> Raised(r.exc)]
    ELSE IF r.status = Absent
        THEN [next |-> "done", out |-> Raised(Exc("KeyError", "'status'", ""))]
    ELSE IF r.status = "completed" THEN [next |-> "done", out |-> Returned(r)]
    ELSE IF r.status = "failed"
        THEN [next |-> "done",
              out |-> Raised(Exc("Exception", "Task failed: ", ErrorText(r)))]
    ELSE [next |-> "sleep", out |-> NoOutcome]

\* The loop body taking a task that is pending as lost.
wait_for_task_poll_pending_is_error(r) ==
    IF r.code = 0 THEN [next |-> "done", out |-> Raised(r.exc)]
    ELSE IF r.status = Absent
        THEN [next |-> "done", out |-> Raised(Exc("KeyError", "'status'", ""))]
    ELSE IF r.status = "completed" THEN [next |-> "done", out |-> Returned(r)]
    ELSE IF r.status = "failed"
        THEN [next |-> "done",
              out |-> Raised(Exc("Exception", "Task failed: ", ErrorText(r)))]
    ELSE IF r.status \in {"cancelled", "pending"}
        THEN [next |-> "done",
              out |-> Raised(Exc("Exception", "Task was cancelled", ""))]
    ELSE [next |-> "sleep", out |-> NoOutcome]

\* One pass of the loop body after get_task_status answered r.
\* get_task_status does not look at the HTTP code: it parses the body, and
\* result['status'] raises KeyError when the body carries no status.
wait_for_task_poll(r) ==
    IF r.code = 0 THEN [next |-> "done", out |-> Raised(r.exc)]
    ELSE IF r.status = Absent
        THEN [next |-> "done", out |-> Raised(Exc("KeyError", "'status'", ""))]
    ELSE IF r.status = "completed" THEN [next |-> "done", out |-> Returned(r)]
    ELSE IF r.status = "failed"
        THEN [next |-> "done",
              out |-> Raised(Exc("Exception", "Task failed: ", ErrorText(r)))]
    ELSE IF r.status = "cancelled"
        THEN [next |-> "done",
              out |-> Raised(Exc("Exception", "Task was cancelled", ""))]
    ELSE [next |-> "sleep", out |-> NoOutcome]

\* The loop test taken as `while elapsed <= timeout`.
wait_for_task_continues_inclusive == elapsed <= c_timeout

\* while elapsed < timeout
wait_for_task_continues == elapsed < c_timeout

\* await asyncio.sleep(poll_interval)
client_sleep == c_poll_interval

\* ----------------------------- MinerURunPodHandler (runpod_handler.py)
NoDict == [present |-> FALSE, success |-> FALSE, error |-> "",
           processing_time |-> -1, status |-> Absent, content |-> "",
           content_length |-> 0]

\* The failure envelope process_task builds in its except clause.
FailureEnvelope(e, t) ==
    [present |-> TRUE, success |-> FALSE, error |-> Str(e),
     processing_time |-> t, status |-> Absent, content |-> "",
     content_length |-> 0]

\* len(content) raises TypeError when content is null; the except clause of
\* the conversion then returns a dict with success False.
convert_api_response_to_runpod_format(r) ==
    IF r.data.present /\ r.data.content = NullContent
    THEN [present |-> TRUE, success |-> FALSE,
          error |-> "Response format conversion failed: "
                    \o "object of type 'NoneType' has no len()",
          processing_time |-> -1, status |-> r.status, content |-> "",
          content_length |-> 0]
    ELSE IF r.data.present
    THEN [present |-> TRUE, success |-> TRUE, error |-> "",
          processing_time |-> -1, status |-> r.status,
          content |-> r.data.content, content_length |-> Len(r.data.content)]
    ELSE [present |-> TRUE, success |-> TRUE, error |-> "",
          processing_time |-> -1, status |-> r.status, content |-> "",
          content_length |-> 0]

\* The test `if object_name is None`, which lets an empty name through.
ObjectNameMissing_none_only(name) == name = Absent

\* if not object_name
ObjectNameMissing(name) == name \in {Absent, ""}

ObjectNames == {Absent, "", "docs/a.pdf"}

\* Answers to the submit request: no response, a non-200 code, a 200 body
\* without task_id, a 200 body with one.
SubmitResp(code, exc, task_id) == [code |-> code, exc |-> exc, task_id |-> task_id]
NoSubmitResp == SubmitResp(-1, NoExc, Absent)
SubmitResponses ==
    { SubmitResp(0, e, Absent) : e \in TransportExceptions }
    \cup { SubmitResp(500, NoExc, Absent), SubmitResp(200, NoExc, Absent),
           SubmitResp(200, NoExc, ""), SubmitResp(200, NoExc, "t1") }

\* The part of submit_task_to_api before the loop: the exception it raises,
\* or NoExc when the task was submitted.
submit_raises(s) ==
    IF s.code = 0 THEN s.exc
    ELSE IF s.code # 200
        THEN Exc("RuntimeError", "API submission failed: ",
                 ToString(s.code) \o " - Internal Server Error")
    ELSE IF s.task_id \in {Absent, ""}
        THEN Exc("RuntimeError", "No task_id returned from API", "")
    ELSE NoExc

\* submit_task_to_api_poll with the completed branch taken for every status
\* that is neither failed nor pending/processing.
submit_task_to_api_poll_else_completed(r) ==
    IF r.code = 0 THEN [next |-> "done", result |-> NoDict, raised |-> r.exc]
    ELSE IF r.code # 200
        THEN [next |-> "done", result |-> NoDict,
              raised |-> Exc("RuntimeError", "Status check failed: ", ToString(r.code))]
    ELSE IF r.status = "failed"
        THEN [next |-> "done", result |-> NoDict,
              raised |-> Exc("RuntimeError", "Task failed: ", ErrorText(r))]
    ELSE IF r.status \in {"pending", "processing"}
        THEN [next |-> "sleep", result |-> NoDict, raised |-> NoExc]
    ELSE [next |-> "done",
          result |-> convert_api_response_to_runpod_format(r),
          raised |-> NoExc]

\* submit_task_to_api_poll waiting on after a failed status, as for pending.
submit_task_to_api_poll_failed_retried(r) ==
    IF r.code = 0 THEN [next |-> "done", result |-> NoDict, raised |-> r.exc]
    ELSE IF r.code # 200
        THEN [next |-> "done", result |-> NoDict,
              raised |-> Exc("RuntimeError", "Status check failed: ", ToString(r.code))]
    ELSE IF r.status = "completed"
        THEN [next |-> "done",
              result |-> convert_api_response_to_runpod_format(r),
              raised |-> NoExc]
    ELSE IF r.status \in {"pending", "processing", "failed"}
        THEN [next |-> "sleep", result |-> NoDict, raised |-> NoExc]
    ELSE [next |-> "done", result |-> NoDict,
          raised |-> Exc("RuntimeError", "Unknown task status: ", r.status)]

\* One pass of the loop body of submit_task_to_api after the status request
\* was answered with r.
submit_task_to_api_poll(r) ==
    IF r.code = 0 THEN [next |-> "done", result |-> NoDict, raised |-> r.exc]
    ELSE IF r.code # 200
        THEN [next |-> "done", result |-> NoDict,
              raised |-> Exc("RuntimeError", "Status check failed: ", ToString(r.code))]
    ELSE IF r.status = "completed"
        THEN [next |-> "done",
              result |-> convert_api_response_to_runpod_format(r),
              raised |-> NoExc]
    ELSE IF r.status = "failed"
        THEN [next |-> "done", result |-> NoDict,
              raised |-> Exc("RuntimeError", "Task failed: ", ErrorText(r))]
    ELSE IF r.status \in {"pending", "processing"}
        THEN [next |-> "sleep", result |-> NoDict, raised |-> NoExc]
    ELSE [next |-> "done", result |-> NoDict,
          raised |-> Exc("RuntimeError", "Unknown task status: ", r.status)]

\* while waited_time < max_wait_time
submit_task_to_api_continues == waited_time < max_wait_time

\* The loop without its sleep.
handler_sleep_none == poll_interval * 0

\* await asyncio.sleep(poll_interval)
handler_sleep == poll_interval

\* ---------------------- RunPodClient (runpod_client_complete.py)
\* The status names of the serverless platform the batch client polls.
RunPodStatus(s) ==
    CASE s = "pending" -> "IN_QUEUE"
      [] s = "processing" -> "IN_PROGRESS"
      [] s = "completed" -> "COMPLETED"
      [] s = "failed" -> "FAILED"
      [] s = "cancelled" -> "CANCELLED"
      [] OTHER -> "UNKNOWN"

NoResult == [status |-> "", output_success |-> FALSE]
TimeoutResult == [status |-> "TIMEOUT", output_success |-> FALSE]

\* The loop body returning whatever status it does not know as running.
wait_for_completion_poll_returns_unknown(r) ==
    IF r.code # 200 THEN [next |-> "sleep", result |-> NoResult]
    ELSE IF RunPodStatus(r.status) \notin {"IN_QUEUE", "IN_PROGRESS"}
        THEN [next |-> "done",
              result |-> [status |-> RunPodStatus(r.status),
                          output_success |-> r.output_success]]
    ELSE [next |-> "sleep", result |-> NoResult]

\* One pass of the loop body of wait_for_completion.  get_task_status raises
\* on no response and (raise_for_status) on a non-200 code; the loop catches
\* every exception and sleeps.
wait_for_completion_poll(r) ==
    IF r.code # 200 THEN [next |-> "sleep", result |-> NoResult]
    ELSE IF RunPodStatus(r.status) \in {"COMPLETED", "FAILED"}
        THEN [next |-> "done",
              result |-> [status |-> RunPodStatus(r.status),
                          output_success |-> r.output_success]]
    ELSE [next |-> "sleep", result |-> NoResult]

\* while time.time() - start_time < timeout
wait_for_completion_continues == now - start_time < c_timeout

\* time.sleep(poll_interval)
batch_sleep == c_poll_interval

\* example_batch_workflow: the summary counts a task as successful only when
\* its result is COMPLETED and the output says success.
example_batch_count(result) ==
    IF result.status = "COMPLETED"
    THEN (IF result.output_success THEN "successful" ELSE "failed")
    ELSE "failed"


\* ------------------------------------------------------------ requests
Request(method, path, upload_images) ==
    [method |-> method, path |-> path, upload_images |-> upload_images]

\* session.post(submit_url, json=task_params)
SubmitRequest == Request("POST", "/api/v1/tasks/submit_by_oss", Absent)

\* wait_for_task asking for the image upload with every status request.
StatusRequest_upload_images(l) ==
    CASE l = "client" -> Request("GET", "/api/v1/tasks/{task_id}", "true")
      [] l = "handler" -> Request("GET", "/api/v1/tasks/{task_id}", Absent)
      [] l = "batch" -> Request("GET", "/status/{task_id}", Absent)

\* The status request of each loop: get_task_status(session, task_id,
\* upload_images=False), session.get(status_url), requests.get(.../status/id).
StatusRequest(l) ==
    CASE l = "client" -> Request("GET", "/api/v1/tasks/{task_id}", "false")
      [] l = "handler" -> Request("GET", "/api/v1/tasks/{task_id}", Absent)
      [] l = "batch" -> Request("GET", "/status/{task_id}", Absent)

IsCompleted(r) == r.code = 200 /\ r.status = "completed"

\* The instants at which the service may have changed its answer from c to
\* d while the callers slept from t to w.  The task may complete at any
\* instant of the sleep; any other change is dated at the wake-up.
ChangeInstants(c, d, s, t, w) ==
    IF d = c THEN {s}
    ELSE IF IsCompleted(d) /\ ~IsCompleted(c) THEN (t + 1)..w
    ELSE {w}

\* ---------------------------------------------------------------- actions
\* Bookkeeping of one status request of caller l answered with r.
\* The task went back: the answer before said processing, this one pending.
Regression(before, r) ==
    /\ before.code = 200 /\ before.status = "processing"
    /\ r.code = 200 /\ r.status = "pending"

Polled(l, r) ==
    /\ polls' = [polls EXCEPT ![l] = @ + 1]
    /\ lastPollAt' = [lastPollAt EXCEPT ![l] = now]
    /\ gap' = [gap EXCEPT ![l] = IF polls[l] = 0 THEN NoGap ELSE now - lastPollAt[l]]
    /\ lastResp' = [lastResp EXCEPT ![l] = r]
    /\ sawTerminal' = [sawTerminal EXCEPT ![l] = @ \/ ObservedTerminal(r)]
    /\ regressed' = [regressed EXCEPT ![l] = @ \/ Regression(lastResp[l], r)]
    /\ sent' = [sent EXCEPT ![l] = @ \cup {StatusRequest(l)}]

NotPolled == UNCHANGED <<polls, lastPollAt, gap, lastResp, sawTerminal, regressed, sent>>

\* wait_for_task: the loop test and, when it passes, one status request and
\* what the loop body does with the answer, up to the sleep.
ClientIterate ==
    /\ pc["client"] = "loop"
    /\ IF wait_for_task_continues
       THEN LET d == wait_for_task_poll(cur) IN
            /\ Polled("client", cur)
            /\ c_out' = d.out
            /\ pc' = [pc EXCEPT !["client"] = d.next]
            /\ wake' = [wake EXCEPT !["client"] =
                          IF d.next = "sleep" THEN now + client_sleep ELSE @]
       ELSE /\ NotPolled
            /\ c_out' = Raised(Exc("TimeoutError", "Task did not complete within ",
                                   ToString(c_timeout) \o "s"))
            /\ pc' = [pc EXCEPT !["client"] = "done"]
            /\ wake' = wake
    /\ UNCHANGED <<storeVars, imgVars, parVars, urlVars, subVars, now, cur, since, active, c_poll_interval, c_timeout, elapsed, event,
                   submits, submitResp, waited_time, h_raised, envelope,
                   start_time, b_result, b_counted>>

\* wait_for_task: the sleep is over; elapsed += poll_interval.
ClientWake ==
    /\ pc["client"] = "sleep"
    /\ now >= wake["client"]
    /\ elapsed' = elapsed + c_poll_interval
    /\ pc' = [pc EXCEPT !["client"] = "loop"]
    /\ NotPolled
    /\ UNCHANGED <<storeVars, imgVars, parVars, urlVars, subVars, now, cur, since, active, c_poll_interval, c_timeout, wake, c_out, event,
                   submits, submitResp, waited_time, h_raised, envelope,
                   start_time, b_result, b_counted>>

\* process_task up to the call of submit_task_to_api: a missing object_name
\* raises ValueError, which the except clause turns into a failure envelope.
ProcessTaskBegin ==
    /\ pc["handler"] = "begin"
    /\ IF ObjectNameMissing(event)
       THEN /\ h_raised' = Exc("ValueError", "object_name is required", "")
            /\ envelope' = FailureEnvelope(h_raised', now)
            /\ pc' = [pc EXCEPT !["handler"] = "done"]
       ELSE /\ pc' = [pc EXCEPT !["handler"] = "submit"]
            /\ UNCHANGED <<h_raised, envelope>>
    /\ NotPolled
    /\ UNCHANGED <<storeVars, imgVars, parVars, urlVars, subVars, now, cur, since, active, c_poll_interval, c_timeout, wake, elapsed,
                   c_out, event, submits, submitResp, waited_time,
                   start_time, b_result, b_counted>>

\* submit_task_to_api: the submit request and the checks of its answer.
HandlerSubmit ==
    /\ pc["handler"] = "submit"
    /\ \E s \in SubmitResponses :
        /\ submits' = submits + 1
        /\ submitResp' = s
        /\ sent' = [sent EXCEPT !["handler"] = @ \cup {SubmitRequest}]
        /\ IF submit_raises(s) # NoExc
           THEN /\ h_raised' = submit_raises(s)
                /\ envelope' = FailureEnvelope(h_raised', now)
                /\ pc' = [pc EXCEPT !["handler"] = "done"]
           ELSE /\ pc' = [pc EXCEPT !["handler"] = "loop"]
                /\ UNCHANGED <<h_raised, envelope>>
    /\ UNCHANGED <<polls, lastPollAt, gap, lastResp, sawTerminal, regressed>>
    /\ UNCHANGED <<storeVars, imgVars, parVars, urlVars, subVars, now, cur, since, active, c_poll_interval, c_timeout, wake, elapsed,
                   c_out, event, waited_time, start_time, b_result, b_counted>>

\* submit_task_to_api: the loop test and one pass of the loop body, and
\* process_task's handling of what submit_task_to_api returns or raises.
HandlerIterate ==
    /\ pc["handler"] = "loop"
    /\ IF submit_task_to_api_continues
       THEN LET d == submit_task_to_api_poll(cur) IN
            /\ Polled("handler", cur)
            /\ pc' = [pc EXCEPT !["handler"] = d.next]
            /\ wake' = [wake EXCEPT !["handler"] =
                          IF d.next = "sleep" THEN now + handler_sleep ELSE @]
            /\ h_raised' = d.raised
            /\ envelope' =
                   IF d.next = "sleep" THEN envelope
                   ELSE IF d.raised # NoExc THEN FailureEnvelope(d.raised, now)
                   ELSE [d.result EXCEPT !.processing_time = now]
       ELSE /\ NotPolled
            /\ h_raised' = Exc("RuntimeError", "Task timeout after ",
                               ToString(max_wait_time) \o " seconds")
            /\ envelope' = FailureEnvelope(h_raised', now)
            /\ pc' = [pc EXCEPT !["handler"] = "done"]
            /\ wake' = wake
    /\ UNCHANGED <<storeVars, imgVars, parVars, urlVars, subVars, now, cur, since, active, c_poll_interval, c_timeout, elapsed, c_out,
                   event, submits, submitResp, waited_time, start_time,
                   b_result, b_counted>>

\* submit_task_to_api: the sleep is over; waited_time += poll_interval.
HandlerWake ==
    /\ pc["handler"] = "sleep"
    /\ now >= wake["handler"]
    /\ waited_time' = waited_time + poll_interval
    /\ pc' = [pc EXCEPT !["handler"] = "loop"]
    /\ NotPolled
    /\ UNCHANGED <<storeVars, imgVars, parVars, urlVars, subVars, now, cur, since, active, c_poll_interval, c_timeout, wake, elapsed,
                   c_out, event, submits, submitResp, h_raised, envelope,
                   start_time, b_result, b_counted>>

\* wait_for_completion: the loop test and one pass of the loop body.
BatchIterate ==
    /\ pc["batch"] = "loop"
    /\ IF wait_for_completion_continues
       THEN LET d == wait_for_completion_poll(cur) IN
            /\ Polled("batch", cur)
            /\ b_result' = d.result
            /\ pc' = [pc EXCEPT !["batch"] =
                        IF d.next = "sleep" THEN "sleep" ELSE "returned"]
            /\ wake' = [wake EXCEPT !["batch"] =
                          IF d.next = "sleep" THEN now + batch_sleep ELSE @]
       ELSE /\ NotPolled
            /\ b_result' = TimeoutResult
            /\ pc' = [pc EXCEPT !["batch"] = "returned"]
            /\ wake' = wake
    /\ UNCHANGED <<storeVars, imgVars, parVars, urlVars, subVars, now, cur, since, active, c_poll_interval, c_timeout, elapsed, c_out,
                   event, submits, submitResp, waited_time, h_raised, envelope,
                   start_time, b_counted>>

\* wait_for_completion: the sleep is over.
BatchWake ==
    /\ pc["batch"] = "sleep"
    /\ now >= wake["batch"]
    /\ pc' = [pc EXCEPT !["batch"] = "loop"]
    /\ NotPolled
    /\ UNCHANGED <<storeVars, imgVars, parVars, urlVars, subVars, now, cur, since, active, c_poll_interval, c_timeout, wake, elapsed,
                   c_out, event, submits, submitResp, waited_time, h_raised,
                   envelope, start_time, b_result, b_counted>>

\* example_batch_workflow: the summary loop counts the returned result.
BatchSummarize ==
    /\ pc["batch"] = "returned"
    /\ b_counted' = example_batch_count(b_result)
    /\ pc' = [pc EXCEPT !["batch"] = "done"]
    /\ NotPolled
    /\ UNCHANGED <<storeVars, imgVars, parVars, urlVars, subVars, now, cur, since, active, c_poll_interval, c_timeout, wake, elapsed,
                   c_out, event, submits, submitResp, waited_time, h_raised,
                   envelope, start_time, b_result>>

Sleeping == {l \in Loops : pc[l] = "sleep"}
NextWake == CHOOSE t \in {wake[l] : l \in Sleeping} :
                \A l \in Sleeping : t <= wake[l]

\* Time passes to the next wake-up once every running caller sleeps; the
\* service may answer differently from then on.
Tick ==
    /\ Sleeping # {}
    /\ \A l \in Loops : pc[l] \in {"idle", "done", "sleep"}
    /\ \A l \in Sleeping : wake[l] > now
    /\ Cardinality(active) = 1 \/ NextWake <= SideHorizon
    /\ now' = NextWake
    /\ cur' \in Responses
    /\ since' \in ChangeInstants(cur, cur', since, now, NextWake)
    /\ NotPolled
    /\ UNCHANGED <<storeVars, imgVars, parVars, urlVars, subVars, active, c_poll_interval, c_timeout, pc, wake, elapsed, c_out,
                   event, submits, submitResp, waited_time, h_raised, envelope,
                   start_time, b_result, b_counted>>


\* ------------------------------------------- task store and cancel_task
\* Cancel requests the API server receives in one behaviour.
MaxCancels == 3

TaskIds == {"t1", "t2"}
UnknownId == "t9"
NoWorker == "<none>"
WorkerId == "w1"

TaskRecord(status, worker) == [status |-> status, worker_id |-> worker]
\* db.get_task gives None for an id the store does not hold.
NotFound == TaskRecord(Absent, NoWorker)

get_task(id) == IF id \in DOMAIN tasks THEN tasks[id] ELSE NotFound

\* db.update_task_status(task_id, status): the store writes the status of
\* that record, whatever the status was.
update_task_status(db, id, status) == [db EXCEPT ![id].status = status]

\* cancel_task accepting a task a worker is processing as well.
cancel_task_decides_processing_too(task) ==
    IF task = NotFound THEN "not_found"
    ELSE IF task.status \in {"pending", "processing"} THEN "cancel"
    ELSE "reject"

\* cancel_task: what the endpoint does with the record get_task returned.
cancel_task_decides(task) ==
    IF task = NotFound THEN "not_found"
    ELSE IF task.status = "pending" THEN "cancel"
    ELSE "reject"

NoCancel == [pc |-> "idle", id |-> Absent, snapshot |-> Absent, response |-> 0]

\* cancel_task: db.get_task and the branch on the status it returned.  An
\* unknown id answers 404, a status other than pending answers 400.
CancelRead(id) ==
    /\ cancel.pc = "idle"
    /\ cancels < MaxCancels
    /\ cancels' = cancels + 1
    /\ LET task == get_task(id)
           d == cancel_task_decides(task) IN
       cancel' = [pc |-> IF d = "cancel" THEN "write" ELSE "idle",
                  id |-> id,
                  snapshot |-> task.status,
                  response |-> IF d = "cancel" THEN 0
                               ELSE IF d = "not_found" THEN 404 ELSE 400]
    /\ UNCHANGED <<tasks, files, seenCancelled, pollVars, imgVars, parVars, urlVars, subVars>>

\* cancel_task: db.update_task_status(task_id, 'cancelled'), the removal of
\* the input file when it exists, and the success answer.
CancelWrite ==
    /\ cancel.pc = "write"
    /\ tasks' = update_task_status(tasks, cancel.id, "cancelled")
    /\ files' = files \ {cancel.id}
    /\ seenCancelled' = seenCancelled \cup {cancel.id}
    /\ cancel' = [cancel EXCEPT !.pc = "idle", !.response = 200]
    /\ UNCHANGED <<cancels, pollVars, imgVars, parVars, urlVars, subVars>>

\* A worker claims a pending task: pending -> processing.
WorkerClaim(t) ==
    /\ tasks[t].status = "pending"
    /\ tasks' = [tasks EXCEPT ![t] = TaskRecord("processing", WorkerId)]
    /\ UNCHANGED <<files, cancel, cancels, seenCancelled, pollVars, imgVars, parVars, urlVars, subVars>>

\* The claiming worker finishes: processing -> completed.
WorkerComplete(t) ==
    /\ tasks[t].status = "processing"
    /\ tasks' = [tasks EXCEPT ![t].status = "completed"]
    /\ UNCHANGED <<files, cancel, cancels, seenCancelled, pollVars, imgVars, parVars, urlVars, subVars>>

\* The claiming worker fails: processing -> failed.
WorkerFail(t) ==
    /\ tasks[t].status = "processing"
    /\ tasks' = [tasks EXCEPT ![t].status = "failed"]
    /\ UNCHANGED <<files, cancel, cancels, seenCancelled, pollVars, imgVars, parVars, urlVars, subVars>>

\* Stale-reset sweep: processing -> pending, the task is unclaimed again.
ResetStale(t) ==
    /\ tasks[t].status = "processing"
    /\ tasks' = [tasks EXCEPT ![t] = TaskRecord("pending", NoWorker)]
    /\ UNCHANGED <<files, cancel, cancels, seenCancelled, pollVars, imgVars, parVars, urlVars, subVars>>

\* ------------------------------------------------- storage backends
\* Most image references in one markdown document.
MaxRefs == 2
\* Most get-task requests served in one behaviour.
MaxRequests == 1

\* str.lower() of the storage types tried.
Lower(s) == IF s = "OSS" THEN "oss" ELSE s

\* The four settings of one provider; "" is an unset variable.
Settings(endpoint, access_key, secret_key, bucket) ==
    [endpoint |-> endpoint, access_key |-> access_key,
     secret_key |-> secret_key, bucket |-> bucket]

\* Host names are sequences of labels.
MinioEndpoint == <<"minio", "example", "com">>
OssEndpoint == <<"oss-cn-shanghai", "aliyuncs", "com">>
NoHost == << >>

MinioSettings == Settings(MinioEndpoint, "AK", "SK", "docs")
OssSettings == Settings(OssEndpoint, "AK", "SK", "bkt")
NoSettings == Settings(NoHost, "", "", "")

\* A provider's settings with one of the four left unset, or all.
Incomplete(c) ==
    { [c EXCEPT !.endpoint = NoHost], [c EXCEPT !.access_key = ""],
      [c EXCEPT !.secret_key = ""], [c EXCEPT !.bucket = ""], NoSettings }

\* not all([endpoint, access_key, secret_key, bucket])
NotAll(c) ==
    c.endpoint = NoHost \/ c.access_key = "" \/ c.secret_key = "" \/ c.bucket = ""

NoBackend == [kind |-> "None", endpoint |-> NoHost, bucket |-> "", secure |-> FALSE]
MinioStorage(endpoint, bucket, secure) ==
    [kind |-> "MinioStorage", endpoint |-> endpoint, bucket |-> bucket, secure |-> secure]
OSSStorage(endpoint, bucket) ==
    [kind |-> "OSSStorage", endpoint |-> endpoint, bucket |-> bucket, secure |-> TRUE]

\* What importing the provider library and constructing the client does.
LibOutcomes == {"ok", "ImportError", "ValueError"}
Untried == "<untried>"

\* Whether create_storage_backend gets as far as importing the library:
\* the storage type is known and the four settings are there.
ReachesImport(e) ==
    \/ Lower(e.STORAGE_TYPE) \in {"minio", "cos"} /\ ~NotAll(e.MINIO)
    \/ Lower(e.STORAGE_TYPE) = "oss" /\ ~NotAll(e.OSS)

\* The except clauses of create_storage_backend with `except Exception`
\* left out: only ImportError is caught.
create_storage_backend_catches_import_only(exc) == exc = "ImportError"

\* except ImportError / except Exception: every exception of the body.
create_storage_backend_catches(exc) == TRUE

\* create_storage_backend: the backend it returns (NoBackend is None) and
\* the exception that left the function, if one did.  lib is what importing
\* the provider library and constructing the client does.
create_storage_backend(e, lib) ==
    LET storage_type == Lower(e.STORAGE_TYPE)
        built(c, backend) ==
            IF NotAll(c) THEN [value |-> NoBackend, raised |-> ""]
            ELSE IF lib = "ok" THEN [value |-> backend, raised |-> ""]
            ELSE IF create_storage_backend_catches(lib)
                THEN [value |-> NoBackend, raised |-> ""]
            ELSE [value |-> NoBackend, raised |-> lib]
    IN
    IF storage_type \in {"minio", "cos"}
    THEN built(e.MINIO, MinioStorage(e.MINIO.endpoint, e.MINIO.bucket, e.MINIO_SECURE))
    ELSE IF storage_type = "oss"
    THEN built(e.OSS, OSSStorage(e.OSS.endpoint, e.OSS.bucket))
    ELSE [value |-> NoBackend, raised |-> ""]

\* What the provider call of check_connection does: it returns true, false
\* or a value that is no boolean, or it raises.
ProviderOutcomes == {"True", "False", "None", "raises"}
Unchecked == "<unchecked>"

\* check_connection: MinioStorage returns what client.bucket_exists returned,
\* OSSStorage returns True once bucket.get_bucket_info returned; both return
\* False when the call raised.
check_connection(backend, outcome) ==
    IF outcome = "raises" THEN "False"
    ELSE IF backend.kind = "MinioStorage" THEN outcome
    ELSE "True"

\* ------------------------------------------------------ image references
\* An image target: an absolute URL (scheme, host, path) or, with no scheme
\* and no host, a relative path.
Target(scheme, host, dir, name) ==
    [scheme |-> scheme, host |-> host, dir |-> dir, name |-> name]
LocalTarget(name) == Target("", NoHost, <<"images">>, name)

\* url.startswith(('http://', 'https://'))
IsRemote(t) == t.scheme \in {"http", "https"}

\* One image reference of a document: ![alt](target) ("md"),
\* <img src="target" alt="alt"> ("html"), or the tag with other white space
\* than one blank between img and src ("html_ws").
Ref(syn, alt, target) == [syn |-> syn, alt |-> alt, target |-> target]

\* html_pattern, <img\s+src="...": the tag with any white space after img.
IsImgTag(r) == r.syn \in {"html", "html_ws"}

\* The strings download_images_from_storage replaces, '<img src="{url}"' and
\* ']({url})', occur in the reference.
Replaceable(r) == r.syn \in {"md", "html"}

\* An object key: images/<uuid><suffix>.
ObjectKey(n) == [dir |-> <<"images">>, name |-> "u" \o ToString(n) \o ".png"]

\* get_url: MinioStorage gives <scheme>://<endpoint>/<object_name>,
\* OSSStorage https://<bucket>.<endpoint>/<object_name>.
get_url(backend, key) ==
    IF backend.kind = "MinioStorage"
    THEN Target(IF backend.secure THEN "https" ELSE "http", backend.endpoint,
                key.dir, key.name)
    ELSE Target("https", <<backend.bucket>> \o backend.endpoint, key.dir, key.name)

\* Where upload_file puts an object: fput_object(bucket, object_name, path),
\* put_object_from_file(object_name, path) on the bucket at the endpoint.
\* The bucket is named by its labels, as it appears in a host name.
Location(endpoint, bucket, key) == [endpoint |-> endpoint, bucket |-> bucket, key |-> key]

\* The documents tried: up to MaxRefs references in either syntax, each to
\* a relative path or to a URL of another site.
Names == {"a.png"}
ForeignUrl == Target("https", <<"cdn", "example", "com">>, <<"pics">>, "a.png")
Targets == {LocalTarget(n) : n \in Names} \cup {ForeignUrl}
Refs == {Ref(syn, "a", t) : syn \in {"md", "html"}, t \in Targets}
        \cup {Ref("html_ws", "a", ForeignUrl)}
Documents == UNION {[1..n -> Refs] : n \in 0..MaxRefs}

\* The bytes of the image files of the result directory.
Bytes(name) == "bytes of " \o name
ForeignBytes == "bytes of another site"

\* The positions of the references re.sub matches with img_pattern and whose
\* file image_dir / Path(image_path).name exists.
Uploadable(md, images) ==
    {i \in 1..Len(md) : md[i].syn = "md" /\ md[i].target.name \in images}

\* A file name made from the file: the same name for every upload of it.
UuidAt_of_the_file(md, images, n, i) == 1

\* The number of uuid4() calls up to position i, after n earlier ones.
UuidAt(md, images, n, i) ==
    n + Cardinality({k \in Uploadable(md, images) : k <= i})

\* process_markdown_images giving up at the first upload that fails: the
\* references after it are left as they are.
process_markdown_images_aborts_on_failure(md, images, upload_images, backend, n, ok) ==
    IF ~upload_images \/ backend = NoBackend THEN md
    ELSE [i \in 1..Len(md) |->
            IF i \in Uploadable(md, images)
               /\ \A k \in Uploadable(md, images) : k <= i => ok[k]
            THEN Ref("html", md[i].alt,
                     get_url(backend, ObjectKey(UuidAt(md, images, n, i))))
            ELSE md[i]]

\* process_markdown_images rewriting a reference whether or not its upload
\* succeeded.
process_markdown_images_rewrites_failed(md, images, upload_images, backend, n, ok) ==
    IF ~upload_images \/ backend = NoBackend THEN md
    ELSE [i \in 1..Len(md) |->
            IF i \in Uploadable(md, images)
            THEN Ref("html", md[i].alt,
                     get_url(backend, ObjectKey(UuidAt(md, images, n, i))))
            ELSE md[i]]

\* process_markdown_images: the content it returns; ok[i] says whether
\* storage_backend.upload_file succeeded for the reference at position i.
process_markdown_images(md, images, upload_images, backend, n, ok) ==
    IF ~upload_images \/ backend = NoBackend THEN md
    ELSE [i \in 1..Len(md) |->
            IF i \in Uploadable(md, images) /\ ok[i]
            THEN Ref("html", md[i].alt,
                     get_url(backend, ObjectKey(UuidAt(md, images, n, i))))
            ELSE md[i]]

\* The uploads process_markdown_images attempts, in order.
UploadsOf(md, images, upload_images, backend, n, ok) ==
    IF ~upload_images \/ backend = NoBackend THEN << >>
    ELSE LET U == Uploadable(md, images)
             at(j) == CHOOSE i \in U : Cardinality({k \in U : k <= i}) = j
         IN [j \in 1..Cardinality(U) |->
               [key |-> ObjectKey(UuidAt(md, images, n, at(j))),
                file |-> md[at(j)].target.name,
                ok |-> ok[at(j)],
                at |-> Location(backend.endpoint, <<backend.bucket>>,
                                ObjectKey(UuidAt(md, images, n, at(j))))]]

\* ------------------------------------------------------ get_task_status
\* The result directory of a task: missing, without a markdown file, with
\* one that cannot be read, or with a readable one.
ResultDirs == {"missing", "no markdown", "unreadable", "ok"}
TaskRow(exists, status, result_path, dir, doc, images) ==
    [exists |-> exists, status |-> status, result_path |-> result_path,
     dir |-> dir, doc |-> doc, images |-> images]

NoResultData == [kind |-> "absent", content |-> << >>, images_uploaded |-> FALSE,
                 has_images |-> "null"]
NullResultData == [NoResultData EXCEPT !.kind = "null"]
ResultData(content, images_uploaded, has_images) ==
    [kind |-> "result", content |-> content, images_uploaded |-> images_uploaded,
     has_images |-> has_images]

NoResponse == [code |-> 0, status |-> Absent, data |-> NoResultData]

\* The test that lets get_task_status load the content, taken for every
\* status.
LoadsContent_any_status(t) == TRUE

\* if task['status'] == 'completed'
LoadsContent(t) == t.status = "completed"

\* get_task_status: the response for task t, given the content
\* process_markdown_images returned.
get_task_status(t, upload_images, content) ==
    IF ~t.exists THEN [code |-> 404, status |-> Absent, data |-> NoResultData]
    ELSE IF ~LoadsContent(t) THEN [code |-> 200, status |-> t.status, data |-> NoResultData]
    ELSE IF t.result_path = "" THEN [code |-> 200, status |-> t.status, data |-> NullResultData]
    ELSE IF t.dir \in {"missing", "no markdown"}
        THEN [code |-> 200, status |-> t.status, data |-> NoResultData]
    ELSE IF t.dir = "unreadable"
        THEN [code |-> 200, status |-> t.status, data |-> NullResultData]
    ELSE [code |-> 200, status |-> t.status,
          data |-> ResultData(content, upload_images,
                              IF upload_images THEN "null"
                              ELSE IF t.images # {} THEN "true" ELSE "false")]

\* Whether get_task_status reaches process_markdown_images:
\* upload_images and image_dir.exists(), once the markdown was read.
ProcessesImages(t, upload_images) ==
    /\ t.exists /\ LoadsContent(t) /\ t.result_path # "" /\ t.dir = "ok"
    /\ upload_images /\ t.images # {}

\* ------------------------------------------------- reverse relocation
Pair(alt_text, url) == [alt_text |-> alt_text, url |-> url]

\* extract_image_urls: the <img> tags of the document first, then the
\* ![alt](url) references whose url starts with http:// or https://.
extract_image_urls(md) ==
    LET html == SelectSeq(md, IsImgTag)
        mdr == SelectSeq(md, LAMBDA r : r.syn = "md" /\ IsRemote(r.target))
    IN [j \in 1..Len(html) |-> Pair(html[j].alt, html[j].target)]
       \o [j \in 1..Len(mdr) |-> Pair(mdr[j].alt, mdr[j].target)]

\* The labels of the host names tried that contain 'oss-'.
OssLabels == {"oss-cn-shanghai", "oss-b"}

\* Whether the labels a, b occur side by side in the host name.
HasSuffixLabels(host, a, b) ==
    \E i \in 1..(Len(host) - 1) : host[i] = a /\ host[i + 1] = b

\* detect_storage_type
detect_storage_type(url) ==
    IF HasSuffixLabels(url.host, "aliyuncs", "com")
       \/ \E i \in 1..Len(url.host) : url.host[i] \in OssLabels
    THEN "oss"
    ELSE IF HasSuffixLabels(url.host, "myqcloud", "com")
            \/ \E i \in 2..(Len(url.host) - 1) : url.host[i] = "cos"
    THEN "cos"
    ELSE "unknown"

NoParse == [bucket |-> << >>, endpoint |-> NoHost, object_key |-> [dir |-> << >>, name |-> ""]]

\* parse_oss_url: hostname.split('.oss-') at the first label after the
\* first that starts with 'oss-'.
parse_oss_url(url) ==
    LET at == {i \in 2..Len(url.host) : url.host[i] \in OssLabels} IN
    IF at = {} THEN NoParse
    ELSE LET i == CHOOSE k \in at : \A m \in at : k <= m IN
         [bucket |-> SubSeq(url.host, 1, i - 1),
          endpoint |-> SubSeq(url.host, i, Len(url.host)),
          object_key |-> [dir |-> url.dir, name |-> url.name]]

NoBytes == ""

\* download_from_oss: the bytes written to local_path, NoBytes when it
\* returned False.  net says whether the storage answers.
download_from_oss(url, keys, net, store) ==
    LET p == parse_oss_url(url)
        at == Location(p.endpoint, p.bucket, p.object_key)
    IN IF p = NoParse \/ p.object_key.name = "" THEN NoBytes
       ELSE IF ~keys THEN NoBytes
       ELSE IF ~net \/ at \notin DOMAIN store THEN NoBytes
       ELSE store[at]

\* session.get(url): the body of a 200 answer, NoBytes for any other answer
\* and for an exception.  A storage endpoint addresses its objects by path,
\* /<bucket>/<key>; another site serves its own bytes.
http_get(url, net, store) ==
    IF ~IsRemote(url) \/ ~net THEN NoBytes
    ELSE IF url.host # MinioEndpoint THEN ForeignBytes
    ELSE IF url.dir = << >> THEN NoBytes
    ELSE LET at == Location(url.host, <<Head(url.dir)>>,
                            [dir |-> Tail(url.dir), name |-> url.name])
         IN IF at \in DOMAIN store THEN store[at] ELSE NoBytes

\* The rewriting of download_images_from_storage done for a failed download
\* as well.
Rewrites_also_failed(fetched) == TRUE

\* The rewriting of download_images_from_storage left out altogether.
Rewrites_never(fetched) == FALSE

\* if success: the links are rewritten and the counter incremented.
Rewrites(fetched) == fetched # NoBytes

\* The loop of download_images_from_storage stopping at the first download
\* that fails.
NextImageTried_halts(failed_before) == ~failed_before

\* for alt_text, url in image_urls: try ... except Exception: the next
\* reference is tried whether or not an earlier one failed.
NextImageTried(failed_before) == TRUE

\* download_images_from_storage: the text and the count it returns, the
\* references it extracted, what each download fetched and the files it
\* wrote.  net[j] says whether the network answers for the j-th reference.
download_images_from_storage(md, keys, net, store) ==
    LET image_urls == extract_image_urls(md)
        N == Len(image_urls)
        got == [j \in 1..N |->
            IF detect_storage_type(image_urls[j].url) = "oss"
            THEN download_from_oss(image_urls[j].url, keys, net[j], store)
            ELSE http_get(image_urls[j].url, net[j], store)]
        fetched == [j \in 1..N |->
            IF NextImageTried(\E k \in 1..(j - 1) : got[k] = NoBytes)
            THEN got[j] ELSE NoBytes]
        success == {j \in 1..N : Rewrites(fetched[j])}
        filename == [j \in 1..N |->
            IF image_urls[j].url.name # "" THEN image_urls[j].url.name
            ELSE "image_00" \o ToString(Cardinality({k \in success : k < j})) \o ".png"]
        hits(i) == {j \in success :
                      Replaceable(md[i]) /\ image_urls[j].url = md[i].target}
        first(S) == CHOOSE j \in S : \A k \in S : j <= k
        last(S) == CHOOSE j \in S : \A k \in S : j >= k
        wrote == {j \in 1..N : fetched[j] # NoBytes}
    IN [content |-> [i \in 1..Len(md) |->
                       IF hits(i) = {} THEN md[i]
                       ELSE [md[i] EXCEPT !.target = LocalTarget(filename[first(hits(i))])]],
        count |-> Cardinality(success),
        image_urls |-> image_urls,
        downloads |-> [j \in 1..N |->
            [net |-> net[j], fetched |-> fetched[j],
             via |-> IF detect_storage_type(image_urls[j].url) = "oss"
                     THEN "sdk" ELSE "http"]],
        files |-> [f \in {filename[j] : j \in wrote} |->
                     fetched[last({j \in wrote : filename[j] = f})]]]

NotRelocated == [content |-> << >>, count |-> 0 - 1]

\* The markdown file a former run left in the task's output directory.
SavedBefore == <<Ref("md", "saved before", LocalTarget("old.png"))>>

\* The caller writing the text download_images_from_storage returned
\* whatever the count.
Persists_whatever_the_count(images_downloaded) == TRUE

\* main / full_workflow: if images_downloaded > 0, the updated markdown is
\* written to the task's output directory.
Persists(images_downloaded) == images_downloaded > 0

\* ------------------------------------------- server and client actions
Env(storage_type, minio, oss, secure, keys) ==
    [STORAGE_TYPE |-> storage_type, MINIO |-> minio, OSS |-> oss,
     MINIO_SECURE |-> secure, CLIENT_OSS_KEYS |-> keys]

NoEnv == Env("", NoSettings, NoSettings, FALSE, FALSE)
NoTask == TaskRow(FALSE, Absent, "", "missing", << >>, {})

\* storage_backend = create_storage_backend(), when the module is loaded.
CreateStorageBackend ==
    /\ ipc = "boot"
    /\ \E lib \in (IF ReachesImport(env) THEN LibOutcomes ELSE {Untried}) :
         LET made == create_storage_backend(env, lib) IN
         /\ library' = lib
         /\ storage_backend' = made.value
         /\ ipc' = IF made.raised = "" THEN "serving" ELSE "crashed"
    /\ UNCHANGED <<env, task_row, connection, objects, attempts, requests, response,
                   extracted, downloads, relocated, local_files, task_md,
                   runpod_image_count, pollVars, storeVars, parVars, urlVars, subVars>>

\* storage_backend.check_connection()
CheckConnection ==
    /\ ipc = "serving"
    /\ storage_backend # NoBackend
    /\ connection = Unchecked
    /\ requests = 0
    /\ \E outcome \in ProviderOutcomes :
         connection' = check_connection(storage_backend, outcome)
    /\ UNCHANGED <<env, task_row, ipc, library, storage_backend, objects, attempts, requests,
                   response, extracted, downloads, relocated, local_files, task_md,
                   runpod_image_count, pollVars, storeVars, parVars, urlVars, subVars>>

\* The markdown file of the result directory with the processed content
\* written back to it.
StoredMarkdown_written_back(stored, content) == content

\* The markdown file of the result directory after get_task_status: it is
\* opened with mode 'r' only, and md_content is a variable of the handler.
StoredMarkdown(stored, content) == stored

\* GET /api/v1/tasks/{task_id}?upload_images=...: get_task_status with the
\* call of process_markdown_images and the uploads it makes.
GetTaskStatus(upload_images) ==
    /\ ipc = "serving"
    /\ requests < MaxRequests
    /\ requests' = requests + 1
    /\ LET runs == ProcessesImages(task_row, upload_images)
           U == IF runs /\ storage_backend # NoBackend
                THEN Uploadable(task_row.doc, task_row.images) ELSE {}
       IN \E ok \in [U -> BOOLEAN] :
            LET n == Len(attempts)
                content == IF runs
                           THEN process_markdown_images(task_row.doc, task_row.images,
                                    upload_images, storage_backend, n, ok)
                           ELSE task_row.doc
                ups == IF runs
                       THEN UploadsOf(task_row.doc, task_row.images, upload_images,
                                      storage_backend, n, ok)
                       ELSE << >>
                done == {j \in 1..Len(ups) : ups[j].ok}
            IN /\ response' = get_task_status(task_row, upload_images, content)
               /\ task_row' = [task_row EXCEPT !.doc = StoredMarkdown(@, content)]
               /\ attempts' = attempts \o ups
               /\ objects' = [l \in DOMAIN objects \cup {ups[j].at : j \in done} |->
                                IF \E j \in done : ups[j].at = l
                                THEN Bytes(ups[CHOOSE j \in done : ups[j].at = l].file)
                                ELSE objects[l]]
    /\ UNCHANGED <<env, ipc, library, storage_backend, connection, extracted,
                   downloads, relocated, local_files, task_md,
                   runpod_image_count, pollVars, storeVars, parVars, urlVars, subVars>>

\* main, step 5: if DOWNLOAD_IMAGES and images_uploaded, the client passes
\* the content of the answer to download_images_from_storage and saves the
\* text it returns if the count is positive.
DownloadImages ==
    /\ ipc = "serving"
    /\ response.code = 200
    /\ response.data.kind = "result"
    /\ response.data.images_uploaded
    /\ LET md == response.data.content IN
       \E net \in [1..Len(extract_image_urls(md)) -> BOOLEAN] :
         LET r == download_images_from_storage(md, env.CLIENT_OSS_KEYS, net, objects) IN
         /\ extracted' = r.image_urls
         /\ downloads' = r.downloads
         /\ relocated' = [content |-> r.content, count |-> r.count]
         /\ local_files' = r.files
         /\ task_md' = IF Persists(r.count) THEN r.content ELSE task_md
    /\ ipc' = "done"
    /\ UNCHANGED <<env, task_row, library, storage_backend, connection, objects, attempts,
                   requests, response, runpod_image_count, pollVars, storeVars, parVars, urlVars, subVars>>

NotConverted == 0 - 1

\* _convert_api_response_to_runpod_format: image_count, the matches of
\* ![...](...) plus the matches of <img ... src=...> in the content.
image_count(content) ==
    Cardinality({i \in 1..Len(content) : content[i].syn = "md"})
    + Cardinality({i \in 1..Len(content) : content[i].syn \in {"html", "html_ws"}})

\* The orchestrator converts the answer for a completed task; without a
\* data dictionary the image count is 0.
ConvertApiResponse ==
    /\ ipc = "serving"
    /\ response.code = 200
    /\ response.status = "completed"
    /\ runpod_image_count' =
          IF response.data.kind = "result" THEN image_count(response.data.content)
          ELSE 0
    /\ ipc' = "done"
    /\ UNCHANGED <<env, task_row, library, storage_backend, connection, objects, attempts,
                   requests, response, extracted, downloads, relocated, local_files,
                   task_md, pollVars, storeVars, parVars, urlVars, subVars>>

\* Nothing of the storage and relocation part runs.
InitImagesOff ==
    /\ env = NoEnv
    /\ task_row = NoTask
    /\ ipc = "off"
    /\ library = Untried
    /\ storage_backend = NoBackend
    /\ connection = Unchecked
    /\ objects = << >>
    /\ attempts = << >>
    /\ requests = 0
    /\ response = NoResponse
    /\ extracted = << >>
    /\ downloads = << >>
    /\ relocated = NotRelocated
    /\ local_files = << >>
    /\ task_md = SavedBefore
    /\ runpod_image_count = NotConverted

StorageTypes == {"minio", "cos", "oss", "OSS", "s3"}
DefaultDoc == <<Ref("md", "a", LocalTarget("a.png"))>>
CompletedTask(doc, images) == TaskRow(TRUE, "completed", "/out/t1", "ok", doc, images)

\* The configurations tried with one document: every storage type with the
\* settings of each provider complete or lacking.
ConfigScenarios ==
    {[env |-> Env(t, m, o, TRUE, TRUE), task |-> CompletedTask(DefaultDoc, Names)] :
        t \in StorageTypes,
        m \in {MinioSettings} \cup Incomplete(MinioSettings),
        o \in {OssSettings} \cup Incomplete(OssSettings)}

\* The configurations the documents are tried with.
RelocationEnvs ==
    { Env("minio", MinioSettings, NoSettings, TRUE, FALSE),
      Env("oss", NoSettings, OssSettings, TRUE, TRUE),
      Env("minio", NoSettings, NoSettings, TRUE, FALSE) }

\* The configurations the tasks are tried with.
TaskEnvs ==
    RelocationEnvs \cup
    { Env("minio", MinioSettings, NoSettings, FALSE, FALSE),
      Env("oss", NoSettings, OssSettings, TRUE, FALSE) }

\* The tasks tried with one document: every status, the result location set
\* or cleared, every state of the result directory, and an unknown task id.
TaskScenarios ==
    {[env |-> e, task |-> TaskRow(TRUE, s, p, d, DefaultDoc, Names)] :
        e \in TaskEnvs,
        s \in {"pending", "processing", "completed", "failed", "cancelled"},
        p \in {"", "/out/t1"}, d \in ResultDirs}
    \cup {[env |-> e, task |-> NoTask] : e \in TaskEnvs}

\* The URLs tried one by one: bucket-style and path-style OSS hosts, another
\* host under aliyuncs.com, a COS host and another site, each with an
\* object path and with none.
UrlHosts ==
    { <<"bkt">> \o OssEndpoint, OssEndpoint, <<"cdn", "aliyuncs", "com">>,
      <<"bkt", "cos", "ap-shanghai", "myqcloud", "com">>, <<"cdn", "example", "com">> }
Urls ==
    {Target("https", h, <<"images">>, "a.png") : h \in UrlHosts}
    \cup {Target("https", h, << >>, "") : h \in UrlHosts}

\* One reference to each URL, in a document without local images.
UrlScenarios ==
    {[env |-> Env("oss", NoSettings, OssSettings, TRUE, k),
      task |-> CompletedTask(<<Ref("html", "a", u)>>, {})] :
        k \in BOOLEAN, u \in Urls}

\* Two references to files of one name on two sites, in a document without
\* local images.
SameNameScenarios ==
    {[env |-> Env("oss", NoSettings, OssSettings, TRUE, TRUE),
      task |-> CompletedTask(
          <<Ref("html", "a", Target("https", <<"cdn", "example", "com">>,
                                    <<"images">>, "a.png")),
            Ref("html", "b", Target("https", h, <<"images">>, "a.png"))>>, {})] :
        h \in {<<"bkt", "cos", "ap-shanghai", "myqcloud", "com">>}}

\* Every document with every set of image files in the result directory.
DocumentScenarios ==
    {[env |-> e, task |-> CompletedTask(doc, images)] :
        e \in RelocationEnvs, doc \in Documents, images \in SUBSET Names}

InitImages ==
    /\ \E sc \in ConfigScenarios \cup TaskScenarios \cup DocumentScenarios
                   \cup UrlScenarios \cup SameNameScenarios :
         env = sc.env /\ task_row = sc.task
    /\ ipc = "boot"
    /\ library = Untried
    /\ storage_backend = NoBackend
    /\ connection = Unchecked
    /\ objects = << >>
    /\ attempts = << >>
    /\ requests = 0
    /\ response = NoResponse
    /\ extracted = << >>
    /\ downloads = << >>
    /\ relocated = NotRelocated
    /\ local_files = << >>
    /\ task_md = SavedBefore
    /\ runpod_image_count = NotConverted

\* ------------------------------------------- concurrent invocations
\* Most process_task invocations running at once.
MaxInvocations == 2
\* Most status requests one of them makes while the others run.
ParHorizon == 2

Invocations == 1..MaxInvocations

\* MinerURunPodHandler.__init__
HandlerAttrs == [worker_id |-> "runpod-pod1", api_url |-> "http://localhost:8000"]

Invocation(pc_, event_, submit, seen, result) ==
    [pc |-> pc_, event |-> event_, submit |-> submit, seen |-> seen,
     result |-> result]

\* time.time() - start_time is at least the time the invocation slept; what
\* the other coroutines of the process took in between comes on top.
Elapsed(slept) == {slept, slept + 1}

\* The answer of the service for a task in status s.
StatusAnswer(s) ==
    IF s = "completed" THEN Resp(200, NoExc, s, Absent, Data(Markup), FALSE)
    ELSE IF s = "failed" THEN Resp(200, NoExc, s, "oom", NoData, FALSE)
    ELSE Resp(200, NoExc, s, Absent, NoData, FALSE)

\* waited_time kept in one attribute of the handler that all invocations use.
WaitedCell_of_handler(i) == 1

\* waited_time = 0: a local variable of each call of submit_task_to_api.
WaitedCell(i) == i

\* The event loop of the API server can run a request handler.
ServerCanRun == event_loop = "free"

\* process_task up to the loop of submit_task_to_api: the object_name check
\* and the submit request.
ParProcessTask(i) ==
    /\ inv[i].pc = "begin"
    /\ IF ObjectNameMissing(inv[i].event)
       THEN /\ \E t \in Elapsed(0) :
                 inv' = [inv EXCEPT ![i].pc = "done",
                           ![i].result = FailureEnvelope(
                               Exc("ValueError", "object_name is required", ""), t)]
            /\ UNCHANGED <<waited, task_of>>
       ELSE /\ ServerCanRun
            /\ \E s \in {SubmitResp(500, NoExc, Absent), SubmitResp(200, NoExc, "t1")} :
                 IF submit_raises(s) # NoExc
                 THEN /\ \E t \in Elapsed(0) :
                           inv' = [inv EXCEPT ![i].pc = "done", ![i].submit = s,
                                     ![i].result = FailureEnvelope(submit_raises(s), t)]
                      /\ UNCHANGED <<waited, task_of>>
                 ELSE /\ inv' = [inv EXCEPT ![i].pc = "loop", ![i].submit = s]
                      /\ waited' = [waited EXCEPT ![WaitedCell(i)] = 0]
                      /\ task_of' = [task_of EXCEPT ![i] = "pending"]
    /\ UNCHANGED <<handler_attrs, event_loop, upload_req, storage_hangs,
                   pollVars, storeVars, imgVars, urlVars, subVars>>

\* One pass of the loop of submit_task_to_api: the loop test, the status
\* request and what follows from its answer.
ParPoll(i) ==
    /\ inv[i].pc = "loop"
    /\ IF waited[WaitedCell(i)] < max_wait_time
       THEN /\ ServerCanRun
            /\ Len(inv[i].seen) <= ParHorizon
            /\ \E t \in Elapsed(waited[WaitedCell(i)]) :
               LET d == submit_task_to_api_poll(StatusAnswer(task_of[i]))
               IN inv' = [inv EXCEPT
                     ![i].seen = Append(@, task_of[i]),
                     ![i].pc = d.next,
                     ![i].result =
                         IF d.next = "sleep" THEN @
                         ELSE IF d.raised # NoExc THEN FailureEnvelope(d.raised, t)
                         ELSE [d.result EXCEPT !.processing_time = t]]
       ELSE \E t \in Elapsed(waited[WaitedCell(i)]) :
              inv' = [inv EXCEPT ![i].pc = "done",
                        ![i].result = FailureEnvelope(
                            Exc("RuntimeError", "Task timeout after ",
                                ToString(max_wait_time) \o " seconds"), t)]
    /\ UNCHANGED <<handler_attrs, waited, task_of, event_loop, upload_req,
                   storage_hangs, pollVars, storeVars, imgVars, urlVars, subVars>>

\* await asyncio.sleep(poll_interval); waited_time += poll_interval
ParWake(i) ==
    /\ inv[i].pc = "sleep"
    /\ waited' = [waited EXCEPT ![WaitedCell(i)] = @ + handler_sleep]
    /\ inv' = [inv EXCEPT ![i].pc = "loop"]
    /\ UNCHANGED <<handler_attrs, task_of, event_loop, upload_req, storage_hangs,
                   pollVars, storeVars, imgVars, urlVars, subVars>>

\* A worker finishes the task of invocation i, or fails on it.
ParTaskEnds(i) ==
    /\ task_of[i] = "pending"
    /\ \E s \in {"completed", "failed"} : task_of' = [task_of EXCEPT ![i] = s]
    /\ UNCHANGED <<handler_attrs, inv, waited, event_loop, upload_req, storage_hangs,
                   pollVars, storeVars, imgVars, urlVars, subVars>>

\* The server runs get_task_status(upload_images=true): the coroutine calls
\* process_markdown_images and, in it, storage_backend.upload_file, which
\* does not return to the event loop before the storage has answered.
UploadRequestRuns ==
    /\ upload_req = "idle"
    /\ ServerCanRun
    /\ upload_req' = "in upload_file"
    /\ event_loop' = "in upload_file"
    /\ UNCHANGED <<handler_attrs, inv, waited, task_of, storage_hangs,
                   pollVars, storeVars, imgVars, urlVars, subVars>>

\* The storage answers: upload_file returns and the request is answered.
UploadReturns ==
    /\ upload_req = "in upload_file"
    /\ ~storage_hangs
    /\ upload_req' = "answered"
    /\ event_loop' = "free"
    /\ UNCHANGED <<handler_attrs, inv, waited, task_of, storage_hangs,
                   pollVars, storeVars, imgVars, urlVars, subVars>>

\* No invocation runs.
InitParOff ==
    /\ handler_attrs = HandlerAttrs
    /\ inv = << >>
    /\ waited = << >>
    /\ task_of = << >>
    /\ event_loop = "free"
    /\ upload_req = "idle"
    /\ storage_hangs = FALSE

\* The handler was constructed and every invocation received its event.
InitPar ==
    /\ handler_attrs = HandlerAttrs
    /\ inv \in [Invocations ->
                  {Invocation("begin", e, NoResp, << >>, NoDict) :
                       e \in {Absent, "docs/a.pdf"}}]
    /\ waited = [i \in Invocations |-> 0]
    /\ task_of = [i \in Invocations |-> Absent]
    /\ event_loop = "free"
    /\ upload_req = "idle"
    /\ storage_hangs \in BOOLEAN

\* ------------------------------------------------- storage URLs as text
\* The longest object name tried, in characters.
MaxKeyLen == 3

\* The characters of the object names tried.
KeyChars == {"a", "/", "?", "#"}

\* The object names tried: not empty, and not starting with a slash, which
\* no OSS object name does.
ObjectKeys ==
    {k \in UNION {[1..n -> KeyChars] : n \in 1..MaxKeyLen} : k[1] # "/"}

\* f"https://{self.bucket_name}.{self.endpoint}/{object_name}",
\* f"{scheme}://{self.endpoint}/{object_name}": the host name by its labels,
\* and the characters after the slash that follows it.
get_url_text(backend, object_name) ==
    IF backend.kind = "MinioStorage"
    THEN [scheme |-> IF backend.secure THEN "https" ELSE "http",
          host |-> backend.endpoint, rest |-> object_name]
    ELSE [scheme |-> "https", host |-> <<backend.bucket>> \o backend.endpoint,
          rest |-> object_name]

\* urlparse(url).path: the slash and what follows it up to the first '?' or
\* '#', where the query or the fragment begins.
urlparse_path(url) ==
    LET cut == {i \in 1..Len(url.rest) : url.rest[i] \in {"?", "#"}}
        end == IF cut = {} THEN Len(url.rest)
               ELSE (CHOOSE i \in cut : \A k \in cut : i <= k) - 1
    IN <<"/">> \o SubSeq(url.rest, 1, end)

\* str.lstrip('/')
RECURSIVE lstrip_slash(_)
lstrip_slash(s) ==
    IF s # << >> /\ Head(s) = "/" THEN lstrip_slash(Tail(s)) ELSE s

NoParseText == [bucket |-> << >>, endpoint |-> NoHost, object_key |-> << >>]

\* parse_oss_url on a URL spelled out: bucket and endpoint as parse_oss_url
\* above, object_key = parsed.path.lstrip('/').
parse_oss_url_text(url) ==
    LET at == {i \in 2..Len(url.host) : url.host[i] \in OssLabels} IN
    IF at = {} THEN NoParseText
    ELSE LET i == CHOOSE k \in at : \A m \in at : k <= m IN
         [bucket |-> SubSeq(url.host, 1, i - 1),
          endpoint |-> SubSeq(url.host, i, Len(url.host)),
          object_key |-> lstrip_slash(urlparse_path(url))]

NoUrl == [scheme |-> "", host |-> NoHost, rest |-> << >>]
UrlTrip(pc_, backend, object_name, url, storage_type, parsed) ==
    [pc |-> pc_, backend |-> backend, object_name |-> object_name, url |-> url,
     storage_type |-> storage_type, parsed |-> parsed]

\* storage_backend.get_url(object_name)
GetUrl ==
    /\ url_trip.pc = "configured"
    /\ url_trip' = [url_trip EXCEPT !.pc = "built",
                      !.url = get_url_text(url_trip.backend, url_trip.object_name)]
    /\ UNCHANGED <<pollVars, storeVars, imgVars, parVars, subVars>>

\* detect_storage_type(url)
DetectStorageType ==
    /\ url_trip.pc = "built"
    /\ url_trip' = [url_trip EXCEPT !.pc = "detected",
                      !.storage_type = detect_storage_type(url_trip.url)]
    /\ UNCHANGED <<pollVars, storeVars, imgVars, parVars, subVars>>

\* parse_oss_url(url)
ParseOssUrl ==
    /\ url_trip.pc = "detected"
    /\ url_trip' = [url_trip EXCEPT !.pc = "parsed",
                      !.parsed = parse_oss_url_text(url_trip.url)]
    /\ UNCHANGED <<pollVars, storeVars, imgVars, parVars, subVars>>

\* No URL is built.
InitUrlOff ==
    url_trip = UrlTrip("off", NoBackend, << >>, NoUrl, Absent, NoParseText)

\* An OSSStorage for a bucket at an endpoint oss-<region>.aliyuncs.com, and
\* an object name.
InitUrl ==
    \E b \in {"bkt", "oss-b"}, k \in ObjectKeys :
        url_trip = UrlTrip("configured", OSSStorage(OssEndpoint, b), k, NoUrl,
                           Absent, NoParseText)

\* --------------------------------------------- submission by file upload
\* The arguments submit_task of the client is called with.
SubmitCalls ==
    [backend : {"pipeline", "vlm-transformers"},
     parse_method : {"auto", "txt", "ocr"},
     lang_list : {<<"zh">>, <<"en">>, <<"ch">>, <<"en", "ch">>}]

Field(name, value) == [name |-> name, value |-> value]

\* TianshuClient.submit_task: the fields added to the form, in order.
client_form(call) ==
    <<Field("file", "a.pdf"), Field("backend", call.backend),
      Field("parse_method", call.parse_method)>>
    \o [i \in 1..Len(call.lang_list) |-> Field("lang_list", call.lang_list[i])]

\* A parameter declared Form(default): the value of the field of that name,
\* the default when the form has none.
Form(form, name, default) ==
    LET at == {i \in 1..Len(form) : form[i].name = name} IN
    IF at = {} THEN default
    ELSE form[CHOOSE i \in at : \A k \in at : i <= k].value

NoCreated == [task_id |-> Absent, status |-> Absent, backend |-> Absent,
              options |-> [lang |-> Absent, method |-> Absent]]
NoReply == [code |-> 0, success |-> FALSE, task_id |-> Absent, status |-> Absent]

\* submit_task of the service: db.create_task with the parameters read from
\* the form; the new task is pending.
server_submit_task(form, task_id) ==
    [task_id |-> task_id, status |-> "pending",
     backend |-> Form(form, "backend", "pipeline"),
     options |-> [lang |-> Form(form, "lang", "ch"),
                  method |-> Form(form, "method", "auto")]]

Submission(pc_, call, form, created, reply, raised) ==
    [pc |-> pc_, call |-> call, form |-> form, created |-> created,
     reply |-> reply, raised |-> raised]

\* TianshuClient.submit_task up to session.post(url, data=form).
ClientSubmitTask ==
    /\ submission.pc = "called"
    /\ submission' = [submission EXCEPT !.pc = "posted",
                        !.form = client_form(submission.call)]
    /\ UNCHANGED <<pollVars, storeVars, imgVars, parVars, urlVars>>

\* POST /api/v1/tasks/submit: the file is saved and the task created, or an
\* exception on the way is answered with 500.
ServerSubmitTask ==
    /\ submission.pc = "posted"
    /\ \E saved \in BOOLEAN :
         IF saved
         THEN LET t == server_submit_task(submission.form, "t1") IN
              submission' = [submission EXCEPT !.pc = "answered", !.created = t,
                  !.reply = [code |-> 200, success |-> TRUE, task_id |-> t.task_id,
                             status |-> "pending"]]
         ELSE submission' = [submission EXCEPT !.pc = "answered",
                  !.reply = [code |-> 500, success |-> FALSE, task_id |-> Absent,
                             status |-> Absent]]
    /\ UNCHANGED <<pollVars, storeVars, imgVars, parVars, urlVars>>

\* TianshuClient.submit_task after the answer: the result is returned if it
\* says success, an exception raised if not.
ClientSubmitReturns ==
    /\ submission.pc = "answered"
    /\ submission' = [submission EXCEPT !.pc = "returned",
                        !.raised = ~submission.reply.success]
    /\ UNCHANGED <<pollVars, storeVars, imgVars, parVars, urlVars>>

\* Nothing is submitted.
InitSubmitOff ==
    submission = Submission("off", [backend |-> Absent, parse_method |-> Absent,
                                    lang_list |-> << >>],
                            << >>, NoCreated, NoReply, FALSE)

InitSubmit ==
    \E call \in SubmitCalls :
        submission = Submission("called", call, << >>, NoCreated, NoReply, FALSE)

\* ------------------------------------------------------- specifications
InitStore ==
    /\ tasks = [t \in TaskIds |-> TaskRecord("pending", NoWorker)]
    /\ files = TaskIds
    /\ cancel = NoCancel
    /\ cancels = 0
    /\ seenCancelled = {}

\* The arguments the two clients are called with.  The handler's interval
\* and timeout are fixed, so side by side the clients may be given the same.
MinTimeout == 0 - 1

Params(a) ==
    IF "client" \notin a /\ "batch" \notin a THEN {<<poll_interval, max_wait_time>>}
    ELSE {<<i, t>> : i \in 1..MaxInterval, t \in MinTimeout..MaxTimeout}
         \cup (IF a = Loops THEN {<<poll_interval, max_wait_time>>} ELSE {})

InitPoll(actives, answers) ==
    /\ now = 0
    /\ cur \in answers
    /\ since = 0
    /\ active \in actives
    /\ \E p \in Params(active) : c_poll_interval = p[1] /\ c_timeout = p[2]
    /\ pc = [l \in Loops |-> IF l \notin active THEN "idle"
                             ELSE IF l = "handler" THEN "begin" ELSE "loop"]
    /\ wake = [l \in Loops |-> 0]
    /\ polls = [l \in Loops |-> 0]
    /\ lastPollAt = [l \in Loops |-> 0]
    /\ gap = [l \in Loops |-> NoGap]
    /\ lastResp = [l \in Loops |-> NoResp]
    /\ sawTerminal = [l \in Loops |-> FALSE]
    /\ regressed = [l \in Loops |-> FALSE]
    /\ sent = [l \in Loops |-> {}]
    /\ elapsed = 0
    /\ c_out = NoOutcome
    /\ event \in (IF "handler" \in active THEN ObjectNames ELSE {"docs/a.pdf"})
    /\ submits = 0
    /\ submitResp = NoSubmitResp
    /\ waited_time = 0
    /\ h_raised = NoExc
    /\ envelope = NoDict
    /\ start_time = 0
    /\ b_result = NoResult
    /\ b_counted = ""

\* The polling loops: each caller alone, and the three side by side.
Init ==
    /\ InitPoll({{"client"}, {"handler"}, {"batch"}, Loops}, Responses)
    /\ InitStore
    /\ InitImagesOff
    /\ InitParOff
    /\ InitUrlOff
    /\ InitSubmitOff

Next ==
    \/ ClientIterate
    \/ ClientWake
    \/ ProcessTaskBegin
    \/ HandlerSubmit
    \/ HandlerIterate
    \/ HandlerWake
    \/ BatchIterate
    \/ BatchWake
    \/ BatchSummarize
    \/ Tick

Spec == Init /\ [][Next]_vars

\* The task store under cancel requests, workers and the stale-reset sweep.
InitStoreSpec == InitPoll({{}}, {NoResp}) /\ InitStore /\ InitImagesOff /\ InitParOff /\ InitUrlOff /\ InitSubmitOff

NextStore ==
    \/ \E id \in TaskIds \cup {UnknownId} : CancelRead(id)
    \/ CancelWrite
    \/ \E t \in TaskIds : WorkerClaim(t)
    \/ \E t \in TaskIds : WorkerComplete(t)
    \/ \E t \in TaskIds : WorkerFail(t)
    \/ \E t \in TaskIds : ResetStale(t)

SpecStore == InitStoreSpec /\ [][NextStore]_vars

\* Each caller running alone, scheduled until it has ended: the event loop
\* runs a coroutine that is ready, and a sleep ends when its time has come.
InitAlone ==
    /\ InitPoll({{"client"}, {"handler"}, {"batch"}}, Responses)
    /\ InitStore
    /\ InitImagesOff
    /\ InitParOff
    /\ InitUrlOff
    /\ InitSubmitOff

SpecLive == InitAlone /\ [][Next]_vars /\ WF_vars(Next)

\* The server's storage backend and get_task_status, and the client's
\* download of the images, over the configurations, tasks and documents.
InitImagesSpec == InitPoll({{}}, {NoResp}) /\ InitStore /\ InitImages /\ InitParOff /\ InitUrlOff /\ InitSubmitOff

NextImages ==
    \/ CreateStorageBackend
    \/ CheckConnection
    \/ \E upload_images \in BOOLEAN : GetTaskStatus(upload_images)
    \/ DownloadImages
    \/ ConvertApiResponse

SpecImages == InitImagesSpec /\ [][NextImages]_vars

\* Concurrent invocations of process_task and the requests they and another
\* client make of the API server.
InitParSpec == InitPoll({{}}, {NoResp}) /\ InitStore /\ InitImagesOff /\ InitPar /\ InitUrlOff /\ InitSubmitOff

NextPar ==
    \/ \E i \in Invocations : ParProcessTask(i)
    \/ \E i \in Invocations : ParPoll(i)
    \/ \E i \in Invocations : ParWake(i)
    \/ \E i \in Invocations : ParTaskEnds(i)
    \/ UploadRequestRuns
    \/ UploadReturns

SpecPar == InitParSpec /\ [][NextPar]_vars

\* OSSStorage.get_url followed by detect_storage_type and parse_oss_url.
InitUrlSpec ==
    InitPoll({{}}, {NoResp}) /\ InitStore /\ InitImagesOff /\ InitParOff /\ InitUrl
    /\ InitSubmitOff

NextUrl == GetUrl \/ DetectStorageType \/ ParseOssUrl

SpecUrl == InitUrlSpec /\ [][NextUrl]_vars

\* One submission by file upload, from the client's call to its return.
InitSubmitSpec ==
    /\ InitPoll({{}}, {NoResp}) /\ InitStore /\ InitImagesOff /\ InitParOff
    /\ InitUrlOff /\ InitSubmit

NextSubmit == ClientSubmitTask \/ ServerSubmitTask \/ ClientSubmitReturns

SpecSubmit == InitSubmitSpec /\ [][NextSubmit]_vars


\* ------------------------------------------------------------ outcomes
Ended(l) == pc[l] \in {"done", "returned"}

\* The loop ended because its loop test failed.
TimedOut(l) ==
    CASE l = "client" -> c_out.raised.fmt = "Task did not complete within "
      [] l = "handler" -> h_raised.fmt = "Task timeout after "
      [] l = "batch" -> b_result.status = "TIMEOUT"

ClientReturned == c_out.returned # NoResp
ClientTaskFailed == c_out.raised.type = "Exception" /\ c_out.raised.fmt = "Task failed: "
ClientCancelled == c_out.raised.type = "Exception" /\ c_out.raised.fmt = "Task was cancelled"
ClientTimeout == c_out.raised.type = "TimeoutError" /\ TimedOut("client")

\* The class of outcome a caller that ended reports.
OutcomeClass(l) ==
    CASE l = "client" ->
           (IF ClientReturned THEN "completed"
            ELSE IF ClientTaskFailed THEN "failed"
            ELSE IF ClientCancelled THEN "cancelled"
            ELSE IF ClientTimeout THEN "timed-out"
            ELSE "error")
      [] l = "handler" ->
           (IF envelope.success THEN "completed"
            ELSE IF h_raised.fmt = "Task failed: " THEN "failed"
            ELSE IF h_raised.fmt = "Task timeout after " THEN "timed-out"
            ELSE IF h_raised.fmt = "Unknown task status: " THEN "unknown-status"
            ELSE "error")
      [] l = "batch" ->
           (IF b_result.status = "COMPLETED" THEN "completed"
            ELSE IF b_result.status = "FAILED" THEN "failed"
            ELSE IF b_result.status = "TIMEOUT" THEN "timed-out"
            ELSE "error")

\* The interval a caller is to sleep between two status requests.
Interval(l) == IF l = "handler" THEN poll_interval ELSE c_poll_interval

\* ------------------------------------------------------------- claims

\* C1: wait_for_task returns the polled snapshot exactly when a poll observed
\* completed, raises the task-failed error carrying the task's error message
\* exactly when a poll observed failed, raises the cancelled error exactly
\* when a poll observed cancelled, and raises the timeout only when no poll
\* observed a terminal status; the first terminal status observed ends the
\* wait, and the four outcomes exclude one another.
C1_WaitForTaskOutcome ==
    LET r == lastResp["client"]
        done == pc["client"] = "done"
        saw(s) == done /\ r.code = 200 /\ r.status = s
    IN
    /\ ClientReturned <=> saw("completed")
    /\ ClientReturned => c_out.returned = r
    /\ ClientTaskFailed <=> saw("failed")
    /\ (ClientTaskFailed /\ r.error_message # Absent)
          => c_out.raised.arg = r.error_message
    /\ ClientCancelled <=> saw("cancelled")
    /\ ClientTimeout => (done /\ ~sawTerminal["client"])
    /\ sawTerminal["client"] => (done /\ ObservedTerminal(r))
    /\ Cardinality({b \in {<<1, ClientReturned>>, <<2, ClientTaskFailed>>,
                           <<3, ClientCancelled>>, <<4, ClientTimeout>>} : b[2]}) <= 1

\* A wait that polled a non-terminal status, slept, and then observed failed.
C1_Witness ==
    /\ pc["client"] = "done"
    /\ polls["client"] >= 2
    /\ ClientTaskFailed
    /\ c_out.raised.arg = "oom"

\* C2: in every polling loop a poll that fails with a transport error (no
\* response, or a non-200 response) does not end the wait: the loop goes on
\* to poll again unless its timeout has elapsed.
C2_TransportErrorRetried ==
    \A l \in Loops :
        (polls[l] > 0 /\ IsTransportError(lastResp[l]) /\ Ended(l)) => TimedOut(l)

\* C3: run side by side on the same poll results with the same pollInterval
\* and timeout, the three loops make the same number of polls and end in the
\* same class of outcome.
C3_SameStateMachine ==
    (/\ active = Loops
     /\ c_poll_interval = poll_interval
     /\ c_timeout = max_wait_time
     /\ submitResp # NoSubmitResp
     /\ submit_raises(submitResp) = NoExc)
    => \A l1, l2 \in Loops :
          Ended(l1) =>
             /\ polls[l2] <= polls[l1]
             /\ Ended(l2) => OutcomeClass(l1) = OutcomeClass(l2)

\* C4: process_task always ends with a well-formed envelope: a success
\* envelope built from a completed snapshot, or a failure envelope with
\* success false, a non-empty error message and the elapsed time.
C4_WellFormedEnvelope ==
    pc["handler"] = "done" =>
        /\ envelope.present
        /\ envelope.processing_time >= 0
        /\ \/ /\ envelope.success
              /\ lastResp["handler"].status = "completed"
           \/ /\ ~envelope.success
              /\ envelope.error # ""

\* C5: a missing or empty object_name makes process_task fail without any
\* submit request and without any poll; a submit answer without task_id is
\* followed by no poll.
C5_NoPollWithoutSubmission ==
    /\ (event \in {Absent, ""} /\ pc["handler"] # "begin") =>
          /\ pc["handler"] = "done"
          /\ submits = 0
          /\ polls["handler"] = 0
          /\ ~envelope.success
          /\ h_raised.type = "ValueError"
    /\ (submitResp # NoSubmitResp /\ submitResp.task_id \in {Absent, ""}) =>
          /\ pc["handler"] = "done"
          /\ polls["handler"] = 0
          /\ ~envelope.success
    /\ submits = 0 => polls["handler"] = 0

\* process_task ended on an empty object_name.
C5_Witness ==
    /\ pc["handler"] = "done"
    /\ event = ""
    /\ envelope.present
    /\ envelope.error = "object_name is required"

C7_CancelledDistinct ==
    \A l \in {"handler", "batch"} :
        (polls[l] > 0 /\ lastResp[l].code = 200 /\ lastResp[l].status = "cancelled")
            => (Ended(l) /\ OutcomeClass(l) = "cancelled")

\* C10: between two consecutive status requests of a loop lies a suspension
\* of the poll interval.
C10_NoBusyLoop ==
    \A l \in Loops : polls[l] >= 2 => gap[l] >= Interval(l)

\* Every loop has polled, slept and polled again.
C10_Witness ==
    \A l \in Loops : polls[l] >= 2 /\ gap[l] = Interval(l)


\* C8: cancel_task succeeds exactly when the status get_task returned is
\* pending, and then sets the status to cancelled; for any other status it
\* answers with an error and leaves the record and the input file as they
\* are; for an unknown id it answers not-found and changes nothing.
C8_CancelContract ==
    [][ /\ (cancels' = cancels + 1) =>
             LET id == cancel'.id
                 known == id \in DOMAIN tasks
             IN
             /\ UNCHANGED <<tasks, files>>
             /\ ~known => (cancel'.response = 404 /\ cancel'.pc = "idle")
             /\ (known /\ tasks[id].status # "pending")
                   => (cancel'.response = 400 /\ cancel'.pc = "idle")
             /\ (known /\ tasks[id].status = "pending")
                   => (cancel'.response = 0 /\ cancel'.pc = "write")
        /\ (cancel.pc = "write" /\ cancel'.pc # "write") =>
             /\ cancel.snapshot = "pending"
             /\ cancel'.response = 200
             /\ tasks'[cancel.id].status = "cancelled"
             /\ \A t \in TaskIds \ {cancel.id} : tasks'[t] = tasks[t]
             /\ files' = files \ {cancel.id}
        /\ (cancel'.response = 200 /\ cancel' # cancel) => cancel.pc = "write"
      ]_vars

\* A cancel of a pending task has succeeded, and a second cancel of the same
\* task, now cancelled, has been rejected.
C8_Witness ==
    /\ cancel.response = 400
    /\ cancel.snapshot = "cancelled"
    /\ cancel.id \in seenCancelled
    /\ tasks[cancel.id].status = "cancelled"
    /\ cancel.id \notin files

\* C9: under every interleaving of cancel_task with the workers, a task that
\* has been cancelled is never completed later, and a task a worker has
\* claimed is never set to cancelled.
C9_CancelNeverRaces ==
    \A t \in TaskIds :
        /\ t \in seenCancelled => tasks[t].status # "completed"
        /\ tasks[t].status = "cancelled" => tasks[t].worker_id = NoWorker

\* ------------------------------------------------- bounded, timely waits
\* ceil(t / p) for p > 0, and 0 when t <= 0.
Ceil(t, p) == IF t <= 0 THEN 0 ELSE (t + p - 1) \div p

\* The timeout of each loop.
Timeout(l) == IF l = "handler" THEN max_wait_time ELSE c_timeout

\* The instant at which a caller that ended returned or raised.  Every
\* caller starts at instant 0, and a loop that times out does so at the end
\* of its last sleep.
EndTime(l) ==
    IF ~TimedOut(l) THEN lastPollAt[l]
    ELSE CASE l = "client" -> elapsed
           [] l = "handler" -> waited_time
           [] l = "batch" -> now

\* A status request answered with a status the loops wait on.
IsWaiting(r) == r.code = 200 /\ r.status \in {"pending", "processing"}
IsFailed(r) == r.code = 200 /\ r.status = "failed"

C11_PollBound ==
    /\ polls["client"] <= Ceil(c_timeout, c_poll_interval)
    /\ polls["handler"] <= Ceil(max_wait_time, poll_interval)
    /\ Ceil(max_wait_time, poll_interval) = 150
    /\ \A l \in {"client", "handler"} :
          (Ended(l) /\ polls[l] > 0 /\ IsWaiting(lastResp[l])) =>
              /\ TimedOut(l)
              /\ polls[l] = Ceil(Timeout(l), Interval(l))
              /\ EndTime(l) = polls[l] * Interval(l)
    /\ (pc["client"] = "done" /\ c_timeout <= 0) =>
          (polls["client"] = 0 /\ ClientTimeout)

C11_AllEnded == \A l \in active : pc[l] = "done"

C12_ResponseTime ==
    \A l \in {"client", "handler"} :
        /\ (polls[l] = 1 /\ IsFailed(lastResp[l])) =>
              (Ended(l) /\ OutcomeClass(l) = "failed" /\ EndTime(l) = 0)
        /\ (/\ Ended(l)
            /\ polls[l] > 0
            /\ IsCompleted(cur)
            /\ since < Timeout(l)
            /\ since <= EndTime(l)) =>
              /\ lastResp[l] = cur
              /\ lastPollAt[l] <= since + Interval(l)
              /\ l = "client" => c_out.returned = cur

\* C13: the only requests a polling loop issues are status reads, with
\* upload_images false where the request carries the parameter; the handler
\* issues its one submit request before its loop; no caller, however its
\* wait ended, has sent a cancel or any other mutating request.
C13_WaitingIsReadOnly ==
    \A l \in Loops :
        /\ sent[l] \subseteq
              {StatusRequest(l)} \cup (IF l = "handler" THEN {SubmitRequest} ELSE {})
        /\ \A q \in sent[l] \ {SubmitRequest} :
              /\ q.method = "GET"
              /\ q.upload_images \in {"false", Absent}
        /\ polls[l] > 0 <=> StatusRequest(l) \in sent[l]
        /\ (l = "handler" /\ polls[l] > 0) => SubmitRequest \in sent[l]

\* Every caller has given up: the client and the batch client on their
\* timeout after several polls, the handler on a failed task.
C13_Witness ==
    /\ \A l \in Loops : Ended(l) /\ polls[l] >= 2
    /\ TimedOut("client")
    /\ TimedOut("batch")
    /\ OutcomeClass("handler") = "failed"
    /\ sent["client"] = {Request("GET", "/api/v1/tasks/{task_id}", "false")}

C14_FailureSurfaced ==
    /\ submits <= 1
    /\ \A l \in Loops :
          (polls[l] > 0 /\ IsFailed(lastResp[l])) =>
              /\ Ended(l)
              /\ OutcomeClass(l) = "failed"
    /\ IsFailed(lastResp["handler"]) =>
          /\ h_raised.arg = ErrorText(lastResp["handler"])
          /\ envelope.error = "Task failed: " \o ErrorText(lastResp["handler"])
          /\ ~envelope.success
    /\ IsFailed(lastResp["client"]) =>
          c_out.raised.arg = ErrorText(lastResp["client"])
    /\ IsFailed(lastResp["batch"]) => b_result.status = "FAILED"

C14_NoRetry ==
    \A l \in Loops :
        (polls[l] > 0 /\ IsFailed(lastResp[l])) =>
            /\ polls'[l] = polls[l]
            /\ sent'[l] = sent[l]
            /\ l = "handler" => submits' = submits

\* C14: once a poll observes failed, the caller ends with the failed outcome
\* carrying the task's error_message unchanged, and issues no further poll
\* and no new submission; process_task issues at most one submit request.
C14_FailedNeverRetried == []C14_FailureSurfaced /\ [][C14_NoRetry]_vars

\* The handler reported a task that failed after a first sleep, with the
\* task's message in the envelope.
C14_Witness ==
    /\ pc["handler"] = "done"
    /\ polls["handler"] >= 2
    /\ submits = 1
    /\ envelope.error = "Task failed: oom"

\* ------------------------------------------------ storage and relocation
\* A request for the task of the scenario has been answered.
Answered == requests > 0 /\ response # NoResponse

\* The result of a completed task can be loaded: the location is set, the
\* directory exists and its markdown file is readable.
ResultLoadable(t) ==
    t.status = "completed" /\ t.result_path # "" /\ t.dir = "ok"

\* C15: get_task_status on an existing task answers 200 with the stored
\* status; the answer embeds the content only if the task is completed, its
\* result location is set, the directory exists and the markdown file is
\* readable, and it is status-only in every other case.
C15_StatusAlwaysContentWhenLoadable ==
    (Answered /\ task_row.exists) =>
        /\ response.code = 200
        /\ response.status = task_row.status
        /\ response.data.kind = "result" <=> ResultLoadable(task_row)
        /\ response.data.kind # "result" => response.data.content = << >>
        /\ task_row.status # "completed" => response.data = NoResultData

\* A completed task whose location was cleared is answered with its status
\* and no content.
C15_Witness ==
    /\ Answered
    /\ task_row.status = "completed"
    /\ task_row.result_path = ""
    /\ task_row.dir = "ok"
    /\ response.code = 200
    /\ response.status = "completed"
    /\ response.data = NullResultData

\* The settings of the provider the storage type selects.
SelectedSettings(e) ==
    IF Lower(e.STORAGE_TYPE) = "oss" THEN e.OSS ELSE e.MINIO

KnownStorageType(e) == Lower(e.STORAGE_TYPE) \in {"minio", "cos", "oss"}

\* C16: create_storage_backend never raises and returns None when a setting
\* of the selected provider is empty, the storage type is unknown or the
\* construction fails; with no backend, get_task_status(upload_images=true)
\* on a completed task answers with the markdown content as it is on disk
\* and attempts no upload.
C16_NoBackendDisablesRelocation ==
    /\ ipc # "crashed"
    /\ ipc # "boot" =>
          ((NotAll(SelectedSettings(env)) \/ ~KnownStorageType(env)
            \/ library \in LibOutcomes \ {"ok"}) => storage_backend = NoBackend)
    /\ storage_backend = NoBackend =>
          /\ attempts = << >>
          /\ objects = << >>
          /\ (Answered /\ ResultLoadable(task_row)) =>
                /\ response.code = 200
                /\ response.data.kind = "result"
                /\ response.data.content = task_row.doc

\* The client library failed to construct, and a request with
\* upload_images=true for a document with an image on disk was answered.
C16_Witness ==
    /\ library = "ValueError"
    /\ storage_backend = NoBackend
    /\ Answered
    /\ response.data.kind = "result"
    /\ response.data.images_uploaded
    /\ Uploadable(task_row.doc, task_row.images) # {}
    /\ response.data.content = task_row.doc
    /\ attempts = << >>

ReferencesOf(md) == [i \in 1..Len(md) |-> Pair(md[i].alt, md[i].target)]

\* C18: for a document with N image references in any mix of ![alt](target)
\* and <img src="target" alt="alt">, extract_image_urls returns exactly the
\* N (alt text, target) pairs in the order of the document, duplicates kept.
C18_ExtractsInDocumentOrder ==
    relocated # NotRelocated => extracted = ReferencesOf(response.data.content)

\* No upload attempted so far has succeeded.
NoSuccessfulUpload == \A j \in 1..Len(attempts) : ~attempts[j].ok

\* C19: zero relocations is the identity.  When download_images_from_storage
\* returns the count 0, the text it returns is the text it was given; when
\* process_markdown_images makes no successful upload, the content answered
\* is the markdown file's content.
C19_ZeroRelocationsIsIdentity ==
    /\ (relocated # NotRelocated /\ relocated.count = 0) =>
          relocated.content = response.data.content
    /\ (Answered /\ response.data.kind = "result" /\ NoSuccessfulUpload) =>
          response.data.content = task_row.doc

\* Every upload of the forward pass failed and every download of the reverse
\* pass failed, with references to relocate in both.
C19_Witness ==
    /\ attempts # << >>
    /\ NoSuccessfulUpload
    /\ response.data.images_uploaded
    /\ response.data.content = task_row.doc
    /\ extracted # << >>
    /\ relocated.count = 0
    /\ relocated.content = response.data.content

\* The upload attempts whose image succeeded both hops: the upload succeeded
\* and the download wrote the local file named after the object.
BothHops ==
    {j \in 1..Len(attempts) :
        attempts[j].ok /\ attempts[j].key.name \in DOMAIN local_files}

\* C20: an image uploaded by process_markdown_images and then downloaded by
\* download_images_from_storage has the same bytes locally as the file that
\* was uploaded, and no reference to its storage URL remains in the text the
\* reverse pass returns.
C20_RoundTripPreservesImages ==
    relocated # NotRelocated =>
        \A j \in BothHops :
            /\ local_files[attempts[j].key.name] = Bytes(attempts[j].file)
            /\ \A i \in 1..Len(relocated.content) :
                  relocated.content[i].target
                      # get_url(storage_backend, attempts[j].key)

\* An image went to the OSS bucket and came back: its reference was an
\* absolute URL in the answer and is a local path after the reverse pass.
C20_Witness ==
    /\ BothHops # {}
    /\ storage_backend.kind = "OSSStorage"
    /\ \E i \in 1..Len(relocated.content) :
          /\ task_row.doc[i].target = LocalTarget("a.png")
          /\ IsRemote(response.data.content[i].target)
          /\ relocated.content[i].target = LocalTarget("u1.png")
    /\ local_files["u1.png"] = Bytes("a.png")
    /\ relocated.count > 0

\* The latest answer carries content that went through the forward pass.
Relocating ==
    /\ Answered
    /\ response.data.kind = "result"
    /\ response.data.images_uploaded
    /\ task_row.images # {}
    /\ storage_backend # NoBackend

\* C21: process_markdown_images leaves untouched every reference whose
\* target does not exist as a local file and every reference whose target is
\* already an http(s) URL: its text in the output is that of the input.
C21_RemoteAndMissingUntouched ==
    (Answered /\ response.data.kind = "result") =>
        \A i \in 1..Len(task_row.doc) :
            (IsRemote(task_row.doc[i].target)
             \/ task_row.doc[i].target.name \notin task_row.images) =>
                response.data.content[i] = task_row.doc[i]

\* The position of the j-th reference process_markdown_images uploads.
NthUploadable(md, images, j) ==
    CHOOSE i \in Uploadable(md, images) :
        Cardinality({k \in Uploadable(md, images) : k <= i}) = j

\* The uploads attempted for the latest answer, in order.
LastUploads ==
    LET K == Cardinality(Uploadable(task_row.doc, task_row.images))
    IN SubSeq(attempts, Len(attempts) - K + 1, Len(attempts))

\* C22: an upload failure leaves exactly that reference as it was and does
\* not abort the batch: an upload is attempted for every reference with a
\* local file, and each one whose upload succeeded is rewritten to an image
\* tag with the URL the storage backend returned.
C22_UploadFailureIsolated ==
    Relocating =>
        LET md == task_row.doc
            K == Cardinality(Uploadable(md, task_row.images))
        IN /\ Len(attempts) >= K
           /\ \A j \in 1..K :
                LET i == NthUploadable(md, task_row.images, j)
                    up == LastUploads[j]
                IN response.data.content[i] =
                      IF up.ok
                      THEN Ref("html", md[i].alt, get_url(storage_backend, up.key))
                      ELSE md[i]

\* The first upload of a document failed and the second succeeded: the first
\* reference is as it was, the second is an image tag.
C22_Witness ==
    /\ Relocating
    /\ Len(LastUploads) = 2
    /\ ~LastUploads[1].ok
    /\ LastUploads[2].ok
    /\ response.data.content[1] = task_row.doc[1]
    /\ response.data.content[2].syn = "html"
    /\ IsRemote(response.data.content[2].target)

\* The reverse pass has run on the content of the latest answer.
Reversed == relocated # NotRelocated

\* The extracted references whose download succeeded.
Succeeded == {j \in 1..Len(downloads) : downloads[j].fetched # NoBytes}

\* The reverse pass went on after a failure: every reference has its
\* download, one of another site that answers is fetched whatever failed
\* before it, and the count is the number of downloads that succeeded.
ReverseNeverHalts ==
    /\ Len(downloads) = Len(extracted)
    /\ \A j \in 1..Len(downloads) :
          (downloads[j].net /\ extracted[j].url = ForeignUrl) => j \in Succeeded
    /\ relocated.count = Cardinality(Succeeded)

\* C23 as stated: a failed download never halts the remaining images, the
\* count is the number of successful downloads, and the URL of a reference
\* whose download failed stays as it was in the text.
C23_FailedReferenceUnchanged ==
    Reversed =>
        /\ ReverseNeverHalts
        /\ \A j \in 1..Len(downloads) : j \notin Succeeded =>
              \A i \in 1..Len(relocated.content) :
                  response.data.content[i].target = extracted[j].url =>
                      relocated.content[i] = response.data.content[i]

\* C23, amended: a failed download never halts the remaining images, the
\* count is the number of successful downloads, and a reference keeps its
\* URL in the text unless a download of that same URL succeeded.
C23_FailedDownloadIsolated ==
    Reversed =>
        /\ ReverseNeverHalts
        /\ \A i \in 1..Len(relocated.content) :
              (\A j \in Succeeded :
                    extracted[j].url # response.data.content[i].target) =>
                  relocated.content[i] = response.data.content[i]

\* The first download failed and the second, of another URL, succeeded: the
\* first reference is as it was, the second is local, the count is 1.
C23_Witness ==
    /\ Reversed
    /\ Len(downloads) = 2
    /\ Succeeded = {2}
    /\ extracted[1].url # extracted[2].url
    /\ relocated.count = 1
    /\ \E i \in 1..Len(relocated.content) :
          /\ response.data.content[i].target = extracted[1].url
          /\ relocated.content[i] = response.data.content[i]
    /\ \E i \in 1..Len(relocated.content) :
          /\ response.data.content[i].target = extracted[2].url
          /\ ~IsRemote(relocated.content[i].target)

\* C24: after a successful download of URL u, every reference with target u,
\* in either syntax, has the same relative path images/<filename> as its
\* target, and the count is one per successful download.
C24_EveryOccurrenceRewritten ==
    Reversed =>
        /\ relocated.count = Cardinality(Succeeded)
        /\ \A j \in Succeeded :
              \E f \in DOMAIN local_files :
                  \A i \in 1..Len(relocated.content) :
                      response.data.content[i].target = extracted[j].url =>
                          relocated.content[i].target = LocalTarget(f)

\* C25: the caller of the reverse pass writes the task-directory markdown
\* file if and only if the count returned is greater than zero, and then
\* with the text returned; after a run in which every download failed the
\* file saved before is as it was.
C25_PersistedIffDownloaded ==
    /\ ~Reversed => task_md = SavedBefore
    /\ Reversed =>
          /\ relocated.count > 0 => task_md = relocated.content
          /\ relocated.count = 0 => task_md = SavedBefore

\* Downloads were tried and all failed: the file saved before is kept.
C25_Witness ==
    /\ Reversed
    /\ downloads # << >>
    /\ Succeeded = {}
    /\ relocated.count = 0
    /\ task_md = SavedBefore

\* parse_oss_url gave a bucket, an endpoint and an object key, none empty.
Decomposable(url) ==
    LET p == parse_oss_url(url)
    IN p.bucket # << >> /\ p.endpoint # NoHost /\ p.object_key.name # ""

\* C26: a URL is fetched through the SDK exactly when its host name matches
\* the vendor pattern, every URL so classified is decomposed by
\* parse_oss_url into a non-empty bucket, endpoint and object key, and every
\* other absolute URL is fetched by plain HTTP GET.
C26_FetchPathByClassification ==
    Reversed =>
        \A j \in 1..Len(downloads) :
            LET url == extracted[j].url IN
            /\ downloads[j].via = "sdk" <=> detect_storage_type(url) = "oss"
            /\ downloads[j].via = "sdk" => Decomposable(url)
            /\ (IsRemote(url) /\ detect_storage_type(url) # "oss") =>
                  downloads[j].via = "http"

\* The buckets that allow anonymous reads.
PublicBuckets == {<<"bkt">>}

\* C27: an image in a public-read OSS bucket is downloaded and its link
\* rewritten although the client has no OSS_ACCESS_KEY / OSS_SECRET_KEY.
C27_PublicBucketNeedsNoKeys ==
    Reversed =>
        \A j \in 1..Len(downloads) :
            LET p == parse_oss_url(extracted[j].url) IN
            ( /\ ~env.CLIENT_OSS_KEYS
              /\ downloads[j].via = "sdk"
              /\ downloads[j].net
              /\ p.bucket \in PublicBuckets
              /\ Location(p.endpoint, p.bucket, p.object_key) \in DOMAIN objects )
            => j \in Succeeded

\* C28: for the content of every completed answer, the image_count of the
\* orchestrator's envelope is the number of pairs extract_image_urls yields
\* on that content.
C28_ImageCountIsExtractionCount ==
    (runpod_image_count # NotConverted /\ response.data.kind = "result") =>
        runpod_image_count = Len(extract_image_urls(response.data.content))


\* What process_task returns, without the wall-clock measurement in it.
Outcome(result) == [result EXCEPT !.processing_time = 0]

\* What process_task returns when it runs alone with this event, this
\* answer to its submit request and these statuses of its task.
OutcomeAlone(ev, submit, seen) ==
    IF ObjectNameMissing(ev)
    THEN FailureEnvelope(Exc("ValueError", "object_name is required", ""), 0)
    ELSE IF submit_raises(submit) # NoExc
    THEN FailureEnvelope(submit_raises(submit), 0)
    ELSE LET d == submit_task_to_api_poll(StatusAnswer(seen[Len(seen)]))
         IN IF d.raised # NoExc THEN FailureEnvelope(d.raised, 0)
            ELSE Outcome(d.result)

\* The passes of its loop after which invocation i has slept.
SleptPasses(i) ==
    Cardinality({k \in 1..Len(inv[i].seen) : inv[i].seen[k] = "pending"})
        - (IF inv[i].pc = "sleep" THEN 1 ELSE 0)

\* The invocations a step has changed something of.
Touched ==
    {i \in Invocations :
        \/ inv'[i] # inv[i]
        \/ waited'[WaitedCell(i)] # waited[WaitedCell(i)]}

\* C29: concurrent process_task invocations do not interfere. Whatever the
\* interleaving, an invocation that ended returns what it returns alone for
\* its own event and the statuses of its own task, the time an invocation
\* has waited is that of its own sleeps, a step changes the variables of one
\* invocation at most, and worker_id and api_url stay as __init__ set them.
C29_InvocationsDoNotInterfere ==
    /\ [](/\ handler_attrs = HandlerAttrs
          /\ \A i \in DOMAIN inv :
               /\ inv[i].pc = "done" =>
                    Outcome(inv[i].result)
                        = OutcomeAlone(inv[i].event, inv[i].submit, inv[i].seen)
               /\ inv[i].pc \in {"loop", "sleep"} =>
                    waited[WaitedCell(i)] = handler_sleep * SleptPasses(i))
    /\ [][inv # << >> => Cardinality(Touched) <= 1]_vars

\* Two invocations ran side by side, each slept while the other went on, and
\* they ended differently.
C29_Witness ==
    /\ inv # << >>
    /\ inv[1].pc = "done" /\ inv[2].pc = "done"
    /\ Len(inv[1].seen) >= 2 /\ Len(inv[2].seen) >= 3
    /\ inv[1].result.success /\ ~inv[2].result.success

\* C30: a remote endpoint that never answers stalls only the one that waits
\* for it. While the request with upload_images=true waits in upload_file
\* for a storage that does not answer, the API server can run the handlers
\* of the other requests.
C30_HungStorageStallsOnlyItsRequest ==
    (upload_req = "in upload_file" /\ storage_hangs) => ServerCanRun

\* The two ways an S3-compatible endpoint addresses the object key of a
\* bucket: the bucket as first segment of the path, or as first label of
\* the host name.
PathStyle(scheme, endpoint, bucket, key) ==
    Target(scheme, endpoint, <<bucket>> \o key.dir, key.name)
VirtualHostedStyle(scheme, endpoint, bucket, key) ==
    Target(scheme, <<bucket>> \o endpoint, key.dir, key.name)

\* C31: get_url is the one translation of an object key to its URL, made of
\* the configured scheme, endpoint and bucket and of the key: the URL that a
\* successful upload_file returned in the answer is the virtual-hosted
\* address of the object on OSSStorage and its path-style address on
\* MinioStorage.
C31_UrlIsAddressOfObject ==
    \A j \in 1..Len(attempts) :
        attempts[j].ok =>
            get_url(storage_backend, attempts[j].key) =
                IF storage_backend.kind = "OSSStorage"
                THEN VirtualHostedStyle("https", storage_backend.endpoint,
                                        storage_backend.bucket, attempts[j].key)
                ELSE PathStyle(IF storage_backend.secure THEN "https" ELSE "http",
                               storage_backend.endpoint, storage_backend.bucket,
                               attempts[j].key)

C33_StatusReadLeavesTaskAsItWas ==
    [][requests' # requests => task_row' = task_row]_vars

\* A request relocated an image: its answer differs from the stored markdown.
C33_Witness ==
    /\ requests > 0
    /\ response.code = 200
    /\ response.data.kind = "result"
    /\ response.data.images_uploaded
    /\ response.data.content # task_row.doc
    /\ \E j \in 1..Len(attempts) : attempts[j].ok

\* C34: images_uploaded in an answer tells the truth. Whenever the data of
\* an answer has images_uploaded true, a storage backend is configured and
\* process_markdown_images ran its relocation on the content returned.
C34_ImagesUploadedIsTruthful ==
    (response.code = 200 /\ response.data.kind = "result"
        /\ response.data.images_uploaded)
    => /\ storage_backend # NoBackend
       /\ ProcessesImages(task_row, TRUE)

\* The positions of the answer whose reference the reverse pass rewrote to
\* a local path.
RewrittenLocal ==
    {i \in 1..Len(relocated.content) :
        /\ IsRemote(response.data.content[i].target)
        /\ ~IsRemote(relocated.content[i].target)}

\* C35: in one call of download_images_from_storage, two different URLs
\* that were both downloaded are written to two different local files and
\* rewritten to two different relative paths.
C35_DistinctUrlsDistinctFiles ==
    relocated # NotRelocated =>
        \A i, k \in RewrittenLocal :
            response.data.content[i].target # response.data.content[k].target
            => relocated.content[i].target # relocated.content[k].target

\* C36: OSSStorage.get_url and parse_oss_url are inverse. For a bucket, an
\* endpoint oss-<region>.aliyuncs.com and a non-empty object name, the URL
\* get_url builds is classified 'oss' and parse_oss_url gives back the
\* bucket, the endpoint and the object name.
C36_OssUrlRoundTrip ==
    url_trip.pc = "parsed" =>
        /\ url_trip.storage_type = "oss"
        /\ url_trip.parsed.bucket = <<url_trip.backend.bucket>>
        /\ url_trip.parsed.endpoint = url_trip.backend.endpoint
        /\ url_trip.parsed.object_key = url_trip.object_name

\* wait_for_completion has returned.
BatchReturned == pc["batch"] \in {"returned", "done"}

\* C37: wait_for_completion returns a result whose status is COMPLETED,
\* FAILED or TIMEOUT, whatever the answers to its status requests were:
\* COMPLETED or FAILED is the status its latest request observed, and
\* TIMEOUT is returned only once the timeout has elapsed; request
\* exceptions, other codes than 200 and unknown statuses end in a sleep and
\* the next pass.
C37_BatchReturnsOneOfThree ==
    BatchReturned =>
        /\ b_result.status \in {"COMPLETED", "FAILED", "TIMEOUT"}
        /\ b_result.status = "TIMEOUT" => now - start_time >= c_timeout
        /\ b_result.status # "TIMEOUT" =>
              /\ lastResp["batch"].code = 200
              /\ RunPodStatus(lastResp["batch"].status) = b_result.status

\* The loop went on over answers with an unknown or a cancelled status and
\* returned TIMEOUT once the time was up.
C37_Witness ==
    /\ BatchReturned
    /\ b_result = TimeoutResult
    /\ polls["batch"] >= 2
    /\ lastResp["batch"].code = 200
    /\ RunPodStatus(lastResp["batch"].status) \in {"CANCELLED", "UNKNOWN"}

\* C38: the options the caller chose are the options of the task. A task
\* created for a submission of TianshuClient.submit_task has the parse
\* method and a language the caller gave, is pending, and its id is the one
\* the answer returns.
C38_ChosenOptionsRecorded ==
    submission.created # NoCreated =>
        /\ submission.created.options.method = submission.call.parse_method
        /\ \E i \in 1..Len(submission.call.lang_list) :
              submission.created.options.lang = submission.call.lang_list[i]
        /\ submission.created.status = "pending"
        /\ submission.reply.task_id = submission.created.task_id

\* C39: a status that goes back does not disturb the loops. A caller of
\* wait_for_task or of the handler's loop that has observed processing and
\* then pending again ends on a pending or processing answer only by its
\* timeout, and once it observes completed it returns that answer: the
\* client the snapshot itself, the handler the result made from it, with no
\* exception.
C39_RegressionKeepsWaiting ==
    \A l \in {"client", "handler"} :
        regressed[l] =>
            /\ (IsWaiting(lastResp[l]) /\ Ended(l)) => TimedOut(l)
            /\ IsCompleted(lastResp[l]) =>
                  /\ Ended(l)
                  /\ l = "client" => c_out = Returned(lastResp[l])
                  /\ l = "handler" => (h_raised = NoExc /\ envelope.present)

\* The client observed processing, then pending, went on and returned the
\* completed snapshot it observed later.
C39_Witness ==
    /\ regressed["client"]
    /\ polls["client"] >= 3
    /\ IsCompleted(lastResp["client"])
    /\ c_out = Returned(lastResp["client"])
    /\ pc["client"] = "done"

====
